---- MODULE Spec2Model ----
(***************************************************************************)
(* Dynamic LoRA reallocation controller                                    *)
(* (src/pl_callbacks/dyrealloc_llama_callback.py and                       *)
(*  src/pl_callbacks/dyrealloc_callback.py).                               *)
(*                                                                         *)
(* Every process (worker) of a training run owns one callback object, one  *)
(* copy of the model and one default torch generator; the variables below  *)
(* are functions of the worker's device index.  Real-valued quantities are *)
(* exact rationals: scores are tenths, turn_on_percentile, the metrics and  *)
(* the tolerance are pairs <<numerator, denominator>>.                     *)
(***************************************************************************)
EXTENDS Integers, Sequences, FiniteSets, TLC

(***************************************************************************)
(* Bounds of the model.                                                    *)
(***************************************************************************)
NumLayers == 2
RngMod == 3
StepsPerEpoch == 3
MaxEpochs == 2

(***************************************************************************)
(* Program constants.                                                      *)
(***************************************************************************)
ALPHA_UB == 10

LORA_NAME_HASH ==
    [q_proj |-> 0, k_proj |-> 1, v_proj |-> 2, out_proj |-> 3, fc1 |-> 4, fc2 |-> 5,
     residual_1 |-> 6, residual_2 |-> 7, shortcut_sa |-> 8, shortcut_ffn |-> 9]

\* list(LORA_NAME_HASH.keys())
HashKeys == <<"q_proj", "k_proj", "v_proj", "out_proj", "fc1", "fc2",
              "residual_1", "residual_2", "shortcut_sa", "shortcut_ffn">>

\* the keys of the lora_modules dict every loop builds for a decoder layer,
\* restricted to the projections of the modelled decoder layer
ProjOrder == <<"q_proj", "k_proj">>

\* the keys of the shortcut_modules dict, restricted likewise
ShortcutOrder == <<"residual_1", "shortcut_sa">>

Layers == 0 .. (NumLayers - 1)
Projs == {ProjOrder[i] : i \in 1 .. Len(ProjOrder)}
Adapters == Layers \X Projs
ShortcutNames == {ShortcutOrder[i] : i \in 1 .. Len(ShortcutOrder)}
Shortcuts == Layers \X ShortcutNames
RngStates == 0 .. (RngMod - 1)

\* scores in tenths: 0.1, 0.5, 0.9
ScoreValues == {1, 5, 9}

\* turn_on_percentile as <<numerator, denominator>>, all in (0, 1]
Percentiles == {<<1, 4>>, <<1, 2>>, <<3, 4>>, <<1, 1>>}

VARIABLES
    pc,                    \* position of each worker: in the training loop or in the callback
    batch_idx,             \* batch_idx handed to on_train_batch_start
    current_epoch,         \* pl_module.current_epoch
    importance_test_name,  \* self.importance_test_name
    N,                     \* self.N
    turn_on_percentile,    \* self.turn_on_percentile
    r,                     \* lora.r[lora.active_adapter] of every adapter
    disable_adapters,      \* lora.disable_adapters, per worker and adapter
    importance,            \* the score a gradient-based strategy measures for each adapter
    rng,                   \* state of the generator object self.rng
    rng_state,             \* self.rng_state
    res_val,               \* result of the importance test, in scoring order
    budget,                \* local budget of reallocation()
    turn_on,               \* local turn_on of reallocation()
    reallocation_history,  \* self.reallocation_history
    history_file,          \* content of self.history_save_path
    frequency_file,        \* content of self.frequency_save_path
    limit_test_batches,    \* self.limit_test_batches
    test_i,                \* i of "for i, batch in enumerate(dataloader)"
    requires_grad,         \* param.requires_grad of every named parameter
    forward,               \* lora.forward of every adapter
    original_require_grad, \* local of _snip_test
    original_forward,      \* local of _snip_test
    tie_word_embeddings,   \* whether lm_head.weight is the embed_tokens tensor
    checkpoint,            \* the tensor values the model was loaded with
    tensor,                \* value of every tensor of model.state_dict()
    signs,                 \* local of _synflow_test
    task,                  \* self.task
    metric_reduction_tolerance, \* self.metric_reduction_tolerance
    val_metric_at,         \* what _test measures with the probed module at scale k/10
    original_val_metrics,  \* local of _alpha_importance_test
    cursor,                \* position of the search in the loop over live adapters
    lb,                    \* local lb of the bisection
    rb,                    \* local rb of the bisection
    val_metrics,           \* local val_metrics of the last probe
    exceeded,              \* check_exceed_threshold(val_metrics) of the last probe
    importance_alpha,      \* lora.importance_alpha in tenths, per worker and adapter
    ags_mode,              \* self.ags_mode
    ags_layers,            \* isinstance(decoder_layer, OPTLoraAgsDecoderLayer)
    shortcut_r,            \* shortcut.r[shortcut.active_projector] of every shortcut
    ags_importance,        \* the score a strategy measures for each shortcut
    disable_projectors,    \* shortcut.disable_projectors, per worker and shortcut
    ags_res_val,           \* result of the ags importance test, in scoring order
    ags_budget,            \* local ags_budget of reallocation()
    training_dataset,      \* len(self.data_module.training_dataset)
    validation_dataset,    \* len(self.data_module.validation_dataset)
    interleave_idx,        \* indices of the Subset the mixed dataloader reads
    N_type,                \* type(self.N)
    limit_type,            \* type(self.limit_test_batches)
    N_fraction,            \* the N given to __init__ when it is a float
    limit_fraction,        \* the limit_test_batches given when it is a float
    importance_beta,       \* shortcut.importance_beta in tenths, per worker and shortcut
    ags_interleave_idx,    \* indices of the Subset _alpha_importance_ags_test reads
    test_calls,            \* calls of _test by the running alpha test: the reference
                           \* evaluation, then the probes of each module searched
    grad,                  \* param.grad of every named parameter of alpha_pl_module,
                           \* as the number of backward passes it accumulates (0: None)
    train_dataloader,      \* len(self._get_train_dataloader())
    num_devices            \* trainer.num_devices

setupVars == <<N, N_type, limit_test_batches, limit_type>>
confVars == <<importance_test_name, turn_on_percentile, r, importance,
              tie_word_embeddings, checkpoint, task,
              metric_reduction_tolerance, val_metric_at,
              ags_mode, ags_layers, shortcut_r, ags_importance,
              training_dataset, validation_dataset, N_fraction, limit_fraction,
              train_dataloader, num_devices>>
snipVars == <<test_i, requires_grad, forward, original_require_grad, original_forward>>
synVars == <<tensor, signs>>
alphaVars == <<original_val_metrics, cursor, lb, rb, val_metrics, exceeded,
               importance_alpha>>
agsVars == <<ags_res_val, ags_budget>>
evalVars == <<interleave_idx, ags_interleave_idx, importance_beta, test_calls>>
stratVars == <<snipVars, synVars, alphaVars, agsVars, evalVars, grad>>
loopVars == <<batch_idx, current_epoch>>
rngVars == <<rng, rng_state>>
selVars == <<res_val, budget, turn_on>>
fileVars == <<history_file, frequency_file>>

vars == <<pc, loopVars, confVars, setupVars, disable_adapters, disable_projectors, rngVars, selVars,
          reallocation_history, fileVars, stratVars>>

Workers == DOMAIN pc

(***************************************************************************)
(* Helpers on sequences.                                                   *)
(***************************************************************************)
Range(s) == {s[i] : i \in 1 .. Len(s)}

\* Python s[:k], k possibly negative
SliceTo(s, k) ==
    LET n == Len(s)
        e == IF k >= 0 THEN (IF k < n THEN k ELSE n)
                       ELSE (IF n + k > 0 THEN n + k ELSE 0)
    IN  SubSeq(s, 1, e)

\* the subsequence of s whose elements satisfy Test, in order
RECURSIVE SelectRows(_, _)
SelectRows(s, T) ==
    IF s = <<>> THEN <<>>
    ELSE IF Head(s) \in T THEN <<Head(s)>> \o SelectRows(Tail(s), T)
         ELSE SelectRows(Tail(s), T)


(***************************************************************************)
(* torch.Generator and torch.randperm.  A generator state is a number      *)
(* modulo RngMod; one draw returns the state and advances it by one.       *)
(* randperm(n) is the Fisher-Yates shuffle of 0 .. n-1 driven by n-1 draws.*)
(***************************************************************************)
Advance(s) == (s + 1) % RngMod

Swap(p, i, j) == [p EXCEPT ![i] = p[j], ![j] = p[i]]

RECURSIVE Shuffle(_, _, _)
Shuffle(p, i, s) ==
    IF i >= Len(p) THEN [perm |-> p, state |-> s]
    ELSE LET z == s % (Len(p) - i + 1)
         IN  Shuffle(Swap(p, i, i + z), i + 1, Advance(s))

\* torch.randperm(n, generator=g) with g in state s: the permutation and
\* the state it leaves g in
RandPerm(n, s) == Shuffle([i \in 1 .. n |-> i - 1], 1, s)

(***************************************************************************)
(* The adapter registry: which adapters every loop of the controller       *)
(* visits, and the order in which a strategy scores them.                  *)
(***************************************************************************)
\* a registry that takes every adapter for configured
IsLiveAlways(a) == TRUE

\* not (active_adapter not in lora_A.keys() or r[active_adapter] == 0)
IsLive(a) == r[a] > 0

\* for decoder_layer in model.model.decoder.layers: for proj_name in lora_modules
ForwardOrder ==
    [k \in 1 .. (NumLayers * Len(ProjOrder)) |->
        <<(k - 1) \div Len(ProjOrder), ProjOrder[((k - 1) % Len(ProjOrder)) + 1]>>]

\* the loop of the alpha test without reversed()
UnreversedOrder == ForwardOrder

\* for decoder_layer in reversed(model.model.decoder.layers): ...
ReversedOrder ==
    [k \in 1 .. (NumLayers * Len(ProjOrder)) |->
        <<NumLayers - 1 - ((k - 1) \div Len(ProjOrder)),
          ProjOrder[((k - 1) % Len(ProjOrder)) + 1]>>]

LiveIn(order) == SelectRows(order, {a \in Adapters : IsLive(a)})

\* not (shortcut is None or shortcut.active_projector not in
\* shortcut.proj_A.keys() or shortcut.r[shortcut.active_projector] == 0)
IsLiveShortcut(s) == shortcut_r[s] > 0

\* for decoder_layer in model.model.layers: for proj_name in shortcut_modules
ShortcutForwardOrder ==
    [k \in 1 .. (NumLayers * Len(ShortcutOrder)) |->
        <<(k - 1) \div Len(ShortcutOrder),
          ShortcutOrder[((k - 1) % Len(ShortcutOrder)) + 1]>>]

LiveShortcutsIn(order) == SelectRows(order, {s \in Shortcuts : IsLiveShortcut(s)})

(***************************************************************************)
(* The budgeted selector of reallocation(), ags_mode off (lines 627-657).  *)
(***************************************************************************)
\* alpha_list: rows (layer_idx, LORA_NAME_HASH[proj_name], v) of res_val
AlphaList(rv) ==
    [i \in 1 .. Len(rv) |-> <<rv[i][1], LORA_NAME_HASH[rv[i][2]], rv[i][3]>>]

\* a budget rounded up
BudgetRoundedUp(p, n) == (p[1] * n + p[2] - 1) \div p[2]

\* math.floor(self.turn_on_percentile * original_lora_module_num)
Budget(p, n) == (p[1] * n) \div p[2]

\* alpha_list[:, 2].argsort(): indices by ascending value
ArgSort(al) ==
    LET n == Len(al)
        Before(i) == {j \in 1 .. n : al[j][3] < al[i][3]
                                     \/ (al[j][3] = al[i][3] /\ j < i)}
    IN  [k \in 1 .. n |-> CHOOSE i \in 1 .. n : Cardinality(Before(i)) = k - 1]

\* Python s[-b] for 0 <= b <= len(s), len(s) > 0
IndexFromEnd(s, b) == s[((0 - b) % Len(s)) + 1]

\* Python s[-b:] for 0 <= b
SliceFromEnd(s, b) ==
    LET n == Len(s)
        start == IF b = 0 THEN 0 ELSE IF n - b > 0 THEN n - b ELSE 0
    IN  SubSeq(s, start + 1, n)

\* alpha_threshold = alpha_list[idx[-budget], 2]
AlphaThreshold(al, b) == al[IndexFromEnd(ArgSort(al), b)][3]

Keys(rows) == [i \in 1 .. Len(rows) |-> <<rows[i][1], rows[i][2]>>]

\* greater taken with >= instead of >
GreaterOrEqual(al, thr) == Keys(SelectRows(al, {x \in Range(al) : x[3] >= thr}))

Greater(al, thr) == Keys(SelectRows(al, {x \in Range(al) : x[3] > thr}))

Tie(al, thr) == Keys(SelectRows(al, {x \in Range(al) : x[3] = thr}))

\* sum(alpha_list[:, 2] == alpha_threshold) > 1
IsTied(al, thr) == Cardinality({i \in 1 .. Len(al) : al[i][3] = thr}) > 1

\* the tie-break without self.rng.set_state(self.rng_state)
TieBreakFromGenerator(gen, captured) == gen

\* the generator state the permutation is drawn from: the tie-break first
\* does self.rng.set_state(self.rng_state)
TieBreakSource(gen, captured) == captured

\* a tie-break that hands back the state it drew from
TieBreakReplayed(al, b, s) ==
    LET thr == AlphaThreshold(al, b)
        greater == Greater(al, thr)
        tie == Tie(al, thr)
        drawn == RandPerm(Len(tie), s)
        tie_idx == SliceTo(drawn.perm, b - Len(greater))
    IN  [turn_on |-> [i \in 1 .. Len(tie_idx) |-> tie[tie_idx[i] + 1]] \o greater,
         state |-> s]

\* the tie branch: tie[tie_idx] ++ greater, and the generator state after
TieBreak(al, b, s) ==
    LET thr == AlphaThreshold(al, b)
        greater == Greater(al, thr)
        tie == Tie(al, thr)
        drawn == RandPerm(Len(tie), s)
        tie_idx == SliceTo(drawn.perm, b - Len(greater))
    IN  [turn_on |-> [i \in 1 .. Len(tie_idx) |-> tie[tie_idx[i] + 1]] \o greater,
         state |-> drawn.state]

\* a selection that takes the first budget indices of the argsort
TopBudgetLowest(al, b) ==
    LET idx == SubSeq(ArgSort(al), 1, b)
    IN  [i \in 1 .. Len(idx) |-> <<al[idx[i]][1], al[idx[i]][2]>>]

\* the other branch: idx = idx[-budget:]; turn_on = alpha_list[idx, :2]
TopBudget(al, b) ==
    LET idx == SliceFromEnd(ArgSort(al), b)
    IN  [i \in 1 .. Len(idx) |-> <<al[idx[i]][1], al[idx[i]][2]>>]


Upd(f, w, v) == [f EXCEPT ![w] = v]

(***************************************************************************)
(* The training loop around the callback.                                  *)
(***************************************************************************)
\* Python round(p * n): nearest integer, halves to even
Round(p, n) ==
    LET num == p[1] * n
        fl == num \div p[2]
        twice == 2 * (num % p[2])
    IN  IF twice < p[2] THEN fl
        ELSE IF twice > p[2] THEN fl + 1
        ELSE IF fl % 2 = 0 THEN fl ELSE fl + 1

\* math.ceil that truncates
CeilTruncated(q) == q[1] \div q[2]

\* math.ceil of a positive fraction
Ceil(q) == (q[1] + q[2] - 1) \div q[2]

(***************************************************************************)
(* __init__ (93-111) and setup (128-163).                                  *)
(***************************************************************************)
Tasks == {"classification", "summarization", "causal_language_modeling"}

\* the names _get_importance_test returns a strategy for
ImplementedTests == {"constant", "grad_norm", "snip", "synflow", "alpha_test"}

\* a constructor that accepts every task and every test name
ConstructionNeverFails(t, name) == FALSE

\* the asserts on task and importance_test_name, and _get_importance_test
\* raising NotImplementedError (fisher, jacob_cov) or ValueError
ConstructionFails(t, name) == t \notin Tasks \/ name \notin ImplementedTests

Construct(w) ==
    /\ pc[w] = "new"
    /\ pc' = Upd(pc, w, IF ConstructionFails(task, importance_test_name)
                        THEN "raised" ELSE "constructed")
    /\ UNCHANGED <<loopVars, confVars, setupVars, stratVars, disable_adapters,
                   disable_projectors, rngVars, selVars, reallocation_history, fileVars>>

\* a setup that accepts an N and a limit_test_batches of any type
SetupNeverRaises(nt, f, lt) == FALSE

\* setup: TypeError for an N that is neither int nor float or a
\* limit_test_batches that is neither None, int nor float, and the assert
\* 0.0 < N <= 1.0 on a float N
SetupRaises(nt, f, lt) ==
    \/ nt \notin {"int", "float"}
    \/ nt = "float" /\ ~(f[1] > 0 /\ f[1] <= f[2])
    \/ lt \notin {"None", "int", "float"}

\* self.train_set_len: the batches of an epoch on one device
TrainSetLen == Ceil(<<train_dataloader, num_devices>>)

\* self.val_set_len: the validation batches on one device
ValSetLen == 2

\* self.N after setup: math.ceil(self.train_set_len * self.N) for a float
SetupN(nt, n, f) == IF nt = "float" THEN Ceil(<<TrainSetLen * f[1], f[2]>>) ELSE n

\* self.limit_test_batches after setup, n being self.N after setup
SetupLimit(lt, l, f, n) ==
    IF lt = "None" THEN Round(<<2, n>>, ValSetLen)
    ELSE IF lt = "float" THEN Ceil(<<ValSetLen * f[1], f[2]>>) * 2
    ELSE l

\* setup() and the start of trainer.fit: whatever the run draws from the
\* default generator before the first batch leaves it in any state
Setup(w) ==
    /\ pc[w] = "constructed"
    /\ IF SetupRaises(N_type, N_fraction, limit_type)
       THEN /\ pc' = Upd(pc, w, "raised")
            /\ UNCHANGED <<setupVars, rng>>
       ELSE /\ N' = SetupN(N_type, N, N_fraction)
            /\ N_type' = "int"
            /\ limit_test_batches' =
                  SetupLimit(limit_type, limit_test_batches, limit_fraction, N')
            /\ limit_type' = "int"
            /\ \E s \in RngStates : rng' = Upd(rng, w, s)
            /\ pc' = Upd(pc, w, "batch_start")
    /\ UNCHANGED <<loopVars, confVars, stratVars, disable_adapters, disable_projectors, rng_state, selVars,
                   reallocation_history, fileVars>>

\* the guard counting batches from 1
NotDueFromOne(b, n) == (b + 1) % n > 0

\* on_train_batch_start: if batch_idx % self.N > 0: return
NotDue(b, n) == b % n > 0

SkipReallocation(w) ==
    /\ pc[w] = "batch_start"
    /\ NotDue(batch_idx[w], N)
    /\ pc' = Upd(pc, w, "training_step")
    /\ UNCHANGED <<loopVars, confVars, setupVars, stratVars, disable_adapters, disable_projectors, rngVars, selVars,
                   reallocation_history, fileVars>>

\* the training step of the batch; it may draw from the default generator
TrainingStep(w) ==
    /\ pc[w] = "training_step"
    /\ \E s \in {rng[w], Advance(rng[w])} : rng' = Upd(rng, w, s)
    /\ IF batch_idx[w] + 1 < TrainSetLen
       THEN /\ batch_idx' = Upd(batch_idx, w, batch_idx[w] + 1)
            /\ pc' = Upd(pc, w, "batch_start")
            /\ UNCHANGED current_epoch
       ELSE /\ batch_idx' = Upd(batch_idx, w, 0)
            /\ current_epoch' = Upd(current_epoch, w, current_epoch[w] + 1)
            /\ pc' = Upd(pc, w, IF current_epoch[w] + 1 < MaxEpochs
                                THEN "batch_start" ELSE "fit_done")
    /\ UNCHANGED <<confVars, setupVars, stratVars, disable_adapters, disable_projectors, rng_state, selVars,
                   reallocation_history, fileVars>>

(***************************************************************************)
(* reallocation(): turn on all lora modules (lines 299-350).               *)
(***************************************************************************)
\* a round that leaves the adapters as the previous round set them
ForceEnabledSkipped(flags) == flags

\* lora.disable_adapters = False for every live adapter
ForceEnabled(flags) ==
    [a \in Adapters |-> IF IsLive(a) THEN FALSE ELSE flags[a]]

\* a round that leaves the shortcuts as the previous round set them
ForceEnabledProjectorsSkipped(flags) == flags

\* if isinstance(decoder_layer, OPTLoraAgsDecoderLayer):
\*     shortcut.disable_projectors = False for every live shortcut
ForceEnabledProjectors(flags) ==
    [s \in Shortcuts |-> IF ags_layers /\ IsLiveShortcut(s) THEN FALSE ELSE flags[s]]

StartReallocation(w) ==
    /\ pc[w] = "batch_start"
    /\ ~NotDue(batch_idx[w], N)
    /\ disable_adapters' = Upd(disable_adapters, w, ForceEnabled(disable_adapters[w]))
    /\ disable_projectors' =
          Upd(disable_projectors, w, ForceEnabledProjectors(disable_projectors[w]))
    /\ pc' = Upd(pc, w, "importance_test")
    /\ UNCHANGED <<loopVars, confVars, setupVars, stratVars, rngVars, selVars,
                   reallocation_history, fileVars>>

(***************************************************************************)
(* Importance tests.  res_val is the dict {layer_idx: {proj_name: v}} as   *)
(* the sequence of its items in insertion order.                           *)
(***************************************************************************)
Scored(order, score) ==
    LET live == LiveIn(order)
    IN  [i \in 1 .. Len(live) |-> <<live[i][1], live[i][2], score[live[i]]>>]

(***************************************************************************)
(* Gradient accumulators.  g maps a parameter name to the number of        *)
(* backward passes whose gradient it holds; 0 is an empty accumulator.     *)
(***************************************************************************)
\* an accumulator that zero_grad leaves as it finds it
ZeroGradSkipped(g) == g

\* self.alpha_pl_module.zero_grad()
ZeroGrad(g) == [x \in DOMAIN g |-> 0]

\* n calls of loss.backward(): every parameter that requires grad accumulates
Backward(g, flags, n) ==
    [x \in DOMAIN g |-> IF flags[x] THEN g[x] + n ELSE g[x]]

\* the batches "for i, batch in enumerate(dataloader)" runs before its break
TestBatches == IF limit_test_batches < train_dataloader THEN limit_test_batches
               ELSE train_dataloader

\* _const_test: res_val[layer_idx][proj_name] = 1.0
ConstTest(w) ==
    /\ pc[w] = "importance_test"
    /\ importance_test_name = "constant"
    /\ res_val' = Upd(res_val, w, Scored(ForwardOrder, [a \in Adapters |-> 10]))
    /\ pc' = Upd(pc, w, "selecting")
    /\ UNCHANGED <<loopVars, confVars, setupVars, stratVars, disable_adapters, disable_projectors, rngVars, budget, turn_on,
                   reallocation_history, fileVars>>

\* _grad_norm_test: the gradient norms of the two low-rank factors
GradNormTest(w) ==
    /\ pc[w] = "importance_test"
    /\ importance_test_name = "grad_norm"
    /\ res_val' = Upd(res_val, w, Scored(ForwardOrder, importance))
    /\ grad' = Upd(grad, w,
                   ZeroGrad(Backward(ZeroGrad(grad[w]), requires_grad[w], TestBatches)))
    /\ pc' = Upd(pc, w, "selecting")
    /\ UNCHANGED <<loopVars, confVars, setupVars, snipVars, synVars, alphaVars, agsVars,
                   evalVars, disable_adapters, disable_projectors, rngVars, budget, turn_on,
                   reallocation_history, fileVars>>

\* _grad_norm_test: the training dataset is missing, or a forward/backward
\* pass raises; the exception leaves on_train_batch_start
GradNormRaises(w) ==
    /\ pc[w] = "importance_test"
    /\ importance_test_name = "grad_norm"
    /\ pc' = Upd(pc, w, "raised")
    /\ UNCHANGED <<loopVars, confVars, setupVars, stratVars, disable_adapters, disable_projectors, rngVars, selVars,
                   reallocation_history, fileVars>>

(***************************************************************************)
(* _snip_test (1313-1521).  A parameter name is <<adapter, name>>; the     *)
(* forward of an adapter is "forward" (LoraLinear.forward) or              *)
(* "lora_forward" (the masked forward of line 1375).                       *)
(***************************************************************************)
FactorNames == {"lora_A.weight", "lora_B.weight"}

MaskNames == {"weight_mask_A", "weight_mask_B"}

LiveAdapters == {a \in Adapters : IsLive(a)}

\* the parameters of the model before any SNIP call
NamedParameters == (Adapters \X {"weight"}) \cup (LiveAdapters \X FactorNames)

\* mark_only_lora_as_trainable(model, bias="none")
MarkOnlyLoraAsTrainable == [x \in NamedParameters |-> x[2] \in FactorNames]

\* get_require_grad: {name: param.requires_grad}
GetRequireGrad(flags) == [x \in DOMAIN flags |-> flags[x]]

\* set_require_grad: a name that was not saved gets False
SetRequireGrad(flags, saved) ==
    [x \in DOMAIN flags |-> IF x \in DOMAIN saved THEN saved[x] ELSE FALSE]

\* lines 1371-1372, then 1437-1442 for every live adapter: all flags False,
\* and two fresh nn.Parameter masks, which require grad
FrozenWithMasks(flags) ==
    [x \in (DOMAIN flags) \cup (LiveAdapters \X MaskNames) |->
        x[1] \in LiveAdapters /\ x[2] \in MaskNames]

\* the accumulators after 1437-1442: a fresh mask has no gradient
FreshMasks(g) ==
    [x \in (DOMAIN g) \cup (LiveAdapters \X MaskNames) |->
        IF x[2] \in MaskNames THEN 0 ELSE g[x]]

\* original_forward[layer_idx][proj_name] = lora.forward
SavedForward(fwd) == [a \in LiveAdapters |-> fwd[a]]

\* lora.forward = types.MethodType(lora_forward, lora)
PatchedForward(fwd) ==
    [a \in Adapters |-> IF IsLive(a) THEN "lora_forward" ELSE fwd[a]]

\* the restore loop 1496-1516: it skips an adapter whose disable_adapters is set
RestoredForward(fwd, saved, flags) ==
    [a \in Adapters |-> IF IsLive(a) /\ ~flags[a] THEN saved[a] ELSE fwd[a]]

\* lines 1369-1445
SnipPatch(w) ==
    /\ pc[w] = "importance_test"
    /\ importance_test_name = "snip"
    /\ original_require_grad' =
          Upd(original_require_grad, w, GetRequireGrad(requires_grad[w]))
    /\ requires_grad' = Upd(requires_grad, w, FrozenWithMasks(requires_grad[w]))
    /\ original_forward' = Upd(original_forward, w, SavedForward(forward[w]))
    /\ forward' = Upd(forward, w, PatchedForward(forward[w]))
    /\ test_i' = Upd(test_i, w, 0)
    /\ grad' = Upd(grad, w, ZeroGrad(FreshMasks(grad[w])))
    /\ pc' = Upd(pc, w, "snip_gradients")
    /\ UNCHANGED <<evalVars, agsVars, loopVars, confVars, setupVars, disable_adapters, disable_projectors, rngVars, selVars,
                   reallocation_history, fileVars, synVars, alphaVars>>

\* the loop 1451-1462 has another batch to run
SnipLoopRuns(w) == test_i[w] < train_dataloader /\ test_i[w] < limit_test_batches

\* one pass of the loop: training_step and loss.backward()
SnipBackward(w) ==
    /\ pc[w] = "snip_gradients"
    /\ SnipLoopRuns(w)
    /\ test_i' = Upd(test_i, w, test_i[w] + 1)
    /\ grad' = Upd(grad, w, Backward(grad[w], requires_grad[w], 1))
    /\ UNCHANGED <<evalVars, agsVars, pc, loopVars, confVars, setupVars, disable_adapters, disable_projectors, rngVars, selVars,
                   reallocation_history, fileVars, requires_grad, forward,
                   original_require_grad, original_forward, synVars, alphaVars>>

\* training_step or loss.backward() raises
SnipBackwardRaises(w) ==
    /\ pc[w] = "snip_gradients"
    /\ SnipLoopRuns(w)
    /\ pc' = Upd(pc, w, "raised")
    /\ UNCHANGED <<loopVars, confVars, setupVars, stratVars, disable_adapters, disable_projectors, rngVars, selVars,
                   reallocation_history, fileVars>>

\* lines 1465-1521: the scores, then the restore.  With no backward pass the
\* masks have no grad and torch.abs(None) raises before the restore.
SnipScore(w) ==
    /\ pc[w] = "snip_gradients"
    /\ ~SnipLoopRuns(w)
    /\ IF test_i[w] = 0
       THEN /\ pc' = Upd(pc, w, "raised")
            /\ UNCHANGED <<res_val, requires_grad, forward, grad>>
       ELSE /\ res_val' = Upd(res_val, w, Scored(ForwardOrder, importance))
            /\ grad' = Upd(grad, w, ZeroGrad(grad[w]))
            /\ requires_grad' =
                  Upd(requires_grad, w,
                      SetRequireGrad(requires_grad[w], original_require_grad[w]))
            /\ forward' =
                  Upd(forward, w,
                      RestoredForward(forward[w], original_forward[w],
                                      disable_adapters[w]))
            /\ pc' = Upd(pc, w, "selecting")
    /\ UNCHANGED <<evalVars, agsVars, loopVars, confVars, setupVars, disable_adapters, disable_projectors, rngVars, budget, turn_on,
                   reallocation_history, fileVars, test_i, original_require_grad,
                   original_forward, synVars, alphaVars>>

(***************************************************************************)
(* _synflow_test (1523-1644).  The state dict is a sequence of names; with *)
(* tied word embeddings lm_head.weight is the tensor of embed_tokens.      *)
(***************************************************************************)
\* the names of model.state_dict(), in order
StateDictNames == <<"embed_tokens.weight", "lora_A.weight", "lora_B.weight",
                    "lm_head.weight">>

\* the tensor a state dict name refers to
Storage(tied, name) ==
    IF tied /\ name = "lm_head.weight" THEN "embed_tokens.weight" ELSE name

Tensors(tied) == {Storage(tied, StateDictNames[i]) : i \in 1 .. Len(StateDictNames)}

ParamValues == {-2, 0, 3}

\* torch.sign
Sign(x) == IF x > 0 THEN 1 ELSE IF x < 0 THEN -1 ELSE 0

\* param.abs_()
Abs(x) == IF x < 0 THEN 0 - x ELSE x

\* nonlinearize that leaves the absolute value in place
MulKeepsAbs(x, sg) == x

\* param.mul_(signs[name])
Mul(x, sg) == x * sg

\* linearize over the names that are left: signs[name] = sign(param); param.abs_()
RECURSIVE Linearize(_, _, _, _)
Linearize(names, tied, t, sg) ==
    IF names = <<>> THEN [tensor |-> t, signs |-> sg]
    ELSE LET c == Storage(tied, Head(names))
         IN  Linearize(Tail(names), tied, [t EXCEPT ![c] = Abs(t[c])],
                       sg @@ (Head(names) :> Sign(t[c])))

\* nonlinearize over the names that are left
RECURSIVE Nonlinearize(_, _, _, _)
Nonlinearize(names, tied, t, sg) ==
    IF names = <<>> THEN t
    ELSE LET c == Storage(tied, Head(names))
         IN  Nonlinearize(Tail(names), tied,
                          [t EXCEPT ![c] = Mul(t[c], sg[Head(names)])], sg)

\* signs = linearize(model)
SynflowLinearize(w) ==
    /\ pc[w] = "importance_test"
    /\ importance_test_name = "synflow"
    /\ LET lin == Linearize(StateDictNames, tie_word_embeddings, tensor[w], <<>>)
       IN  /\ tensor' = Upd(tensor, w, lin.tensor)
           /\ signs' = Upd(signs, w, lin.signs)
    /\ grad' = Upd(grad, w, ZeroGrad(grad[w]))
    /\ pc' = Upd(pc, w, "synflow_gradients")
    /\ UNCHANGED <<evalVars, agsVars, loopVars, confVars, setupVars, disable_adapters, disable_projectors, rngVars, selVars,
                   reallocation_history, fileVars, snipVars, alphaVars>>

\* next(iter(dataloader)), model.forward or backward raises (1567-1596)
SynflowRaises(w) ==
    /\ pc[w] = "synflow_gradients"
    /\ pc' = Upd(pc, w, "raised")
    /\ UNCHANGED <<loopVars, confVars, setupVars, stratVars, disable_adapters, disable_projectors, rngVars, selVars,
                   reallocation_history, fileVars>>

\* lines 1598-1644: the scores, then nonlinearize(model, signs)
SynflowScore(w) ==
    /\ pc[w] = "synflow_gradients"
    /\ res_val' = Upd(res_val, w, Scored(ForwardOrder, importance))
    /\ tensor' = Upd(tensor, w,
                     Nonlinearize(StateDictNames, tie_word_embeddings,
                                  tensor[w], signs[w]))
    /\ grad' = Upd(grad, w, ZeroGrad(Backward(grad[w], requires_grad[w], 1)))
    /\ pc' = Upd(pc, w, "selecting")
    /\ UNCHANGED <<evalVars, agsVars, loopVars, confVars, setupVars, disable_adapters, disable_projectors, rngVars, budget, turn_on,
                   reallocation_history, fileVars, signs, snipVars, alphaVars>>

(***************************************************************************)
(* _alpha_importance_test (718-900).  Metrics and the tolerance are        *)
(* rationals <<numerator, denominator>> with a positive denominator;       *)
(* importance_alpha is counted in units of 1 / ALPHA_UB.                   *)
(***************************************************************************)
QAdd(a, b) == <<a[1] * b[2] + b[1] * a[2], a[2] * b[2]>>

QSub(a, b) == <<a[1] * b[2] - b[1] * a[2], a[2] * b[2]>>

QMul(a, b) == <<a[1] * b[1], a[2] * b[2]>>

\* 1 / a, a positive
QInv(a) == <<a[2], a[1]>>

QLess(a, b) == a[1] * b[2] < b[1] * a[2]

\* the perplexity threshold proportional to the reference
GetMetricThresholdProportional(t, original_metric, tol) ==
    IF t = "causal_language_modeling"
    THEN QAdd(original_metric, QMul(original_metric, tol))
    ELSE QSub(original_metric, QMul(original_metric, tol))

\* get_metric_threshold (798-821)
GetMetricThreshold(t, original_metric, tol) ==
    IF t = "causal_language_modeling"
    THEN QAdd(original_metric, QMul(QInv(original_metric), tol))
    ELSE QSub(original_metric, QMul(original_metric, tol))

\* check_exceed_threshold (823-834)
CheckExceedThreshold(t, val_metric, original_metric, tol) ==
    LET threshold == GetMetricThreshold(t, original_metric, tol)
    IN  IF t = "causal_language_modeling"
        THEN QLess(threshold, val_metric)
        ELSE QLess(val_metric, threshold)

TrainSetSize == 2

ValSetSize == 3

\* _get_mixed_dataloader: the two randperm draws from the generator
\* torch.stack([a, b], dim=1).view(-1): a[0], b[0], a[1], b[1], ...
Interleaved(a, b) ==
    [k \in 1 .. (2 * Len(a)) |-> IF k % 2 = 1 THEN a[(k + 1) \div 2] ELSE b[k \div 2]]

\* _get_mixed_dataloader(rng) for a training set of T and a validation set
\* of V elements, rng in state s: the indices handed to Subset, and the state
\* rng is left in
MixedDataloader(T, V, s) ==
    LET train_idx == RandPerm(T, s)
        validation_idx == RandPerm(V, train_idx.state)
    IN  [train_idx |-> train_idx.perm,
         validation_idx |-> validation_idx.perm,
         interleave_idx |->
            IF T >= V
            THEN Interleaved(SubSeq(train_idx.perm, 1, V), validation_idx.perm)
            ELSE Interleaved(train_idx.perm, SubSeq(validation_idx.perm, 1, T))
                 \o SubSeq(validation_idx.perm, T + 1, V),
         state |-> validation_idx.state]

\* ConcatDataset([training_dataset, validation_dataset])[i]
ConcatElement(T, i) ==
    IF i < T THEN <<"training", i>> ELSE <<"validation", i - T>>

\* one more call of _test for the module being searched
Counted(calls) == [calls EXCEPT ![Len(calls)] = calls[Len(calls)] + 1]

\* a search that probes the lower end of the interval
LowerEnd(l, u) == l

\* alpha = (lb + rb) // 2
Midpoint(l, u) == (l + u) \div 2

\* the bound lowered past the probe that passed
RbBelowProbe(alpha) == alpha - 1

\* rb = alpha
RbAfterPass(alpha) == alpha

\* lb = alpha + 1
LbAfterExceed(alpha) == alpha + 1

\* lines 727-785 and the entry of the loop over live adapters
AlphaStart(w) ==
    /\ pc[w] = "importance_test"
    /\ importance_test_name = "alpha_test"
    /\ LET mixed == MixedDataloader(training_dataset, validation_dataset, rng_state[w])
       IN  /\ rng' = Upd(rng, w, mixed.state)
           /\ rng_state' = Upd(rng_state, w, mixed.state)
           /\ interleave_idx' = Upd(interleave_idx, w, mixed.interleave_idx)
    /\ original_val_metrics' = Upd(original_val_metrics, w, val_metric_at[ALPHA_UB])
    /\ test_calls' = Upd(test_calls, w, IF LiveIn(ReversedOrder) = <<>>
                                        THEN <<1>> ELSE <<1, 0>>)
    /\ res_val' = Upd(res_val, w, <<>>)
    /\ cursor' = Upd(cursor, w, 1)
    /\ lb' = Upd(lb, w, 0)
    /\ rb' = Upd(rb, w, ALPHA_UB)
    /\ pc' = Upd(pc, w, IF LiveIn(ReversedOrder) = <<>>
                        THEN "selecting" ELSE "alpha_search")
    /\ UNCHANGED <<grad, ags_interleave_idx, importance_beta, agsVars, loopVars, confVars, setupVars, disable_adapters, disable_projectors, budget, turn_on,
                   reallocation_history, fileVars, snipVars, synVars,
                   val_metrics, exceeded, importance_alpha>>

\* one pass of "while lb < rb" (876-886)
AlphaProbe(w) ==
    /\ pc[w] = "alpha_search"
    /\ lb[w] < rb[w]
    /\ LET a == LiveIn(ReversedOrder)[cursor[w]]
           alpha == Midpoint(lb[w], rb[w])
           val == val_metric_at[alpha]
           ex == CheckExceedThreshold(task, val, original_val_metrics[w],
                                      metric_reduction_tolerance)
       IN  /\ importance_alpha' =
                 Upd(importance_alpha, w, [importance_alpha[w] EXCEPT ![a] = alpha])
           /\ val_metrics' = Upd(val_metrics, w, val)
           /\ exceeded' = Upd(exceeded, w, ex)
           /\ lb' = Upd(lb, w, IF ex THEN LbAfterExceed(alpha) ELSE lb[w])
           /\ rb' = Upd(rb, w, IF ex THEN rb[w] ELSE RbAfterPass(alpha))
    /\ test_calls' = Upd(test_calls, w, Counted(test_calls[w]))
    /\ UNCHANGED <<grad, interleave_idx, ags_interleave_idx, importance_beta, agsVars, pc, loopVars, confVars, setupVars, disable_adapters, disable_projectors, rngVars, selVars,
                   reallocation_history, fileVars, snipVars, synVars,
                   original_val_metrics, cursor>>

\* a search that leaves the module at the scale of its last probe
ScaleLeftAtProbe(alpha) == alpha

\* lora.set_importance_alpha(1.0) (889), shortcut.set_importance_beta(1.0) (1052)
ScaleAfterSearch(alpha) == ALPHA_UB

\* lines 887-892, and the next adapter of the loop or the return
AlphaRecord(w) ==
    /\ pc[w] = "alpha_search"
    /\ ~(lb[w] < rb[w])
    /\ LET live == LiveIn(ReversedOrder)
           a == live[cursor[w]]
       IN  /\ importance_alpha' =
                 Upd(importance_alpha, w,
                     [importance_alpha[w] EXCEPT ![a] = ScaleAfterSearch(importance_alpha[w][a])])
           /\ res_val' = Upd(res_val, w, Append(res_val[w], <<a[1], a[2], rb[w]>>))
           /\ IF cursor[w] = Len(live)
              THEN /\ pc' = Upd(pc, w, "selecting")
                   /\ UNCHANGED <<cursor, lb, rb, test_calls>>
              ELSE /\ cursor' = Upd(cursor, w, cursor[w] + 1)
                   /\ lb' = Upd(lb, w, 0)
                   /\ rb' = Upd(rb, w, ALPHA_UB)
                   /\ test_calls' = Upd(test_calls, w, Append(test_calls[w], 0))
                   /\ UNCHANGED pc
    /\ UNCHANGED <<grad, interleave_idx, ags_interleave_idx, importance_beta, agsVars, loopVars, confVars, setupVars, disable_adapters, disable_projectors, rngVars, budget, turn_on,
                   reallocation_history, fileVars, snipVars, synVars,
                   original_val_metrics, val_metrics, exceeded>>

(***************************************************************************)
(* The importance test of the shortcut modules (360-368, 1220-1311).       *)
(***************************************************************************)
\* self.ags_mode is not None and self.ags_mode != "off"
AgsOn == ags_mode # "off"

ScoredShortcuts(order, score) ==
    LET live == LiveShortcutsIn(order)
    IN  [i \in 1 .. Len(live) |-> <<live[i][1], live[i][2], score[live[i]]>>]

\* _grad_norm_ags_test: the gradient norms of the two projectors
GradNormAgsTest(w) ==
    /\ pc[w] = "selecting"
    /\ AgsOn
    /\ importance_test_name = "grad_norm"
    /\ ags_res_val' = Upd(ags_res_val, w,
                          ScoredShortcuts(ShortcutForwardOrder, ags_importance))
    /\ grad' = Upd(grad, w,
                   ZeroGrad(Backward(ZeroGrad(grad[w]), requires_grad[w], TestBatches)))
    /\ pc' = Upd(pc, w, "ags_selecting")
    /\ UNCHANGED <<evalVars, loopVars, confVars, setupVars, snipVars, synVars, alphaVars, ags_budget,
                   disable_adapters, disable_projectors, rngVars, selVars,
                   reallocation_history, fileVars>>

\* the tests _get_ags_importance_test (195-214) returns a function for
AgsTests == {"alpha_test", "grad_norm"}

\* self.ags_importance_test(...) with self.ags_importance_test = None:
\* _get_ags_importance_test falls through "pass" for constant, snip and
\* synflow, and calling None raises TypeError
AgsTestMissing(w) ==
    /\ pc[w] = "selecting"
    /\ AgsOn
    /\ importance_test_name \notin AgsTests
    /\ pc' = Upd(pc, w, "raised")
    /\ UNCHANGED <<loopVars, confVars, setupVars, stratVars, disable_adapters, disable_projectors,
                   rngVars, selVars, reallocation_history, fileVars>>

\* _grad_norm_ags_test raises: the training dataset is missing or a
\* forward/backward pass fails
AgsTestRaises(w) ==
    /\ pc[w] = "selecting"
    /\ AgsOn
    /\ importance_test_name = "grad_norm"
    /\ pc' = Upd(pc, w, "raised")
    /\ UNCHANGED <<loopVars, confVars, setupVars, stratVars, disable_adapters, disable_projectors,
                   rngVars, selVars, reallocation_history, fileVars>>

(***************************************************************************)
(* _alpha_importance_ags_test (902-1063): the bisection of the alpha test  *)
(* on shortcut.importance_beta, over a mixed dataloader of its own.        *)
(***************************************************************************)
\* for decoder_layer in reversed(model.model.decoder.layers): for proj_name
\* in shortcut_modules
ShortcutReversedOrder ==
    [k \in 1 .. (NumLayers * Len(ShortcutOrder)) |->
        <<NumLayers - 1 - ((k - 1) \div Len(ShortcutOrder)),
          ShortcutOrder[((k - 1) % Len(ShortcutOrder)) + 1]>>]

\* lines 911-1016 and the entry of the loop over live shortcuts
AlphaAgsStart(w) ==
    /\ pc[w] = "selecting"
    /\ AgsOn
    /\ importance_test_name = "alpha_test"
    /\ LET mixed == MixedDataloader(training_dataset, validation_dataset, rng_state[w])
       IN  /\ rng' = Upd(rng, w, mixed.state)
           /\ rng_state' = Upd(rng_state, w, mixed.state)
           /\ ags_interleave_idx' = Upd(ags_interleave_idx, w, mixed.interleave_idx)
    /\ original_val_metrics' = Upd(original_val_metrics, w, val_metric_at[ALPHA_UB])
    /\ ags_res_val' = Upd(ags_res_val, w, <<>>)
    /\ IF ~ags_layers
       THEN \* assert type(model) is OPTLoraAgsFor...
            /\ pc' = Upd(pc, w, "raised")
            /\ test_calls' = Upd(test_calls, w, <<1>>)
            /\ UNCHANGED <<cursor, lb, rb>>
       ELSE /\ test_calls' = Upd(test_calls, w, IF LiveShortcutsIn(ShortcutReversedOrder) = <<>>
                                                THEN <<1>> ELSE <<1, 0>>)
            /\ cursor' = Upd(cursor, w, 1)
            /\ lb' = Upd(lb, w, 0)
            /\ rb' = Upd(rb, w, ALPHA_UB)
            /\ pc' = Upd(pc, w, IF LiveShortcutsIn(ShortcutReversedOrder) = <<>>
                                THEN "ags_selecting" ELSE "ags_alpha_search")
    /\ UNCHANGED <<grad, interleave_idx, importance_beta, ags_budget, loopVars, confVars,
                   setupVars, disable_adapters, disable_projectors, selVars,
                   reallocation_history, fileVars, snipVars, synVars,
                   val_metrics, exceeded, importance_alpha>>

\* one pass of "while lb < rb" (1042-1049)
AlphaAgsProbe(w) ==
    /\ pc[w] = "ags_alpha_search"
    /\ lb[w] < rb[w]
    /\ LET sc == LiveShortcutsIn(ShortcutReversedOrder)[cursor[w]]
           beta == Midpoint(lb[w], rb[w])
           val == val_metric_at[beta]
           ex == CheckExceedThreshold(task, val, original_val_metrics[w],
                                      metric_reduction_tolerance)
       IN  /\ importance_beta' =
                 Upd(importance_beta, w, [importance_beta[w] EXCEPT ![sc] = beta])
           /\ val_metrics' = Upd(val_metrics, w, val)
           /\ exceeded' = Upd(exceeded, w, ex)
           /\ lb' = Upd(lb, w, IF ex THEN LbAfterExceed(beta) ELSE lb[w])
           /\ rb' = Upd(rb, w, IF ex THEN rb[w] ELSE RbAfterPass(beta))
    /\ test_calls' = Upd(test_calls, w, Counted(test_calls[w]))
    /\ UNCHANGED <<grad, interleave_idx, ags_interleave_idx, agsVars, pc, loopVars, confVars,
                   setupVars, disable_adapters, disable_projectors, rngVars, selVars,
                   reallocation_history, fileVars, snipVars, synVars,
                   original_val_metrics, cursor, importance_alpha>>

\* lines 1050-1055, and the next shortcut of the loop or the return
AlphaAgsRecord(w) ==
    /\ pc[w] = "ags_alpha_search"
    /\ ~(lb[w] < rb[w])
    /\ LET live == LiveShortcutsIn(ShortcutReversedOrder)
           sc == live[cursor[w]]
       IN  /\ importance_beta' =
                 Upd(importance_beta, w,
                     [importance_beta[w] EXCEPT ![sc] = ScaleAfterSearch(importance_beta[w][sc])])
           /\ ags_res_val' = Upd(ags_res_val, w,
                                 Append(ags_res_val[w], <<sc[1], sc[2], rb[w]>>))
           /\ IF cursor[w] = Len(live)
              THEN /\ pc' = Upd(pc, w, "ags_selecting")
                   /\ UNCHANGED <<cursor, lb, rb, test_calls>>
              ELSE /\ cursor' = Upd(cursor, w, cursor[w] + 1)
                   /\ lb' = Upd(lb, w, 0)
                   /\ rb' = Upd(rb, w, ALPHA_UB)
                   /\ test_calls' = Upd(test_calls, w, Append(test_calls[w], 0))
                   /\ UNCHANGED pc
    /\ UNCHANGED <<grad, interleave_idx, ags_interleave_idx, ags_budget, loopVars, confVars,
                   setupVars, disable_adapters, disable_projectors, rngVars, selVars,
                   reallocation_history, fileVars, snipVars, synVars,
                   original_val_metrics, val_metrics, exceeded, importance_alpha>>

(***************************************************************************)
(* reallocation(), ags_mode combined and separated (371-416, 490-555).     *)
(***************************************************************************)
\* one thresholding of a score list al to b modules with the generator in
\* state gen and self.rng_state = captured: the kept keys, and the generator
\* and self.rng_state afterwards
Thresholded(al, b, gen, captured) ==
    IF IsTied(al, AlphaThreshold(al, b))
    THEN LET tb == TieBreak(al, b, TieBreakSource(gen, captured))
         IN  [turn_on |-> tb.turn_on, rng |-> tb.state, rng_state |-> tb.state]
    ELSE [turn_on |-> TopBudget(al, b), rng |-> gen, rng_state |-> captured]

\* ags_mode combined: one threshold over the concatenated list
DecideTurnOnCombined(w) ==
    /\ pc[w] = "ags_selecting"
    /\ ags_mode = "combined"
    /\ LET al == AlphaList(res_val[w])
           agl == AlphaList(ags_res_val[w])
           b == Budget(turn_on_percentile, Len(al)) + Round(turn_on_percentile, Len(agl))
           kept == Thresholded(al \o agl, b, rng[w], rng_state[w])
       IN  IF Len(al) = 0 \/ Len(agl) = 0
           THEN \* np.concatenate of an empty list raises ValueError
                /\ pc' = Upd(pc, w, "raised")
                /\ UNCHANGED <<rngVars, budget, turn_on>>
           ELSE /\ rng' = Upd(rng, w, kept.rng)
                /\ rng_state' = Upd(rng_state, w, kept.rng_state)
                /\ turn_on' = Upd(turn_on, w, kept.turn_on)
                /\ budget' = Upd(budget, w, b)
                \* assert len(turn_on) == budget
                /\ pc' = Upd(pc, w, IF Len(kept.turn_on) = b
                                    THEN "appending" ELSE "raised")
    /\ UNCHANGED <<loopVars, confVars, setupVars, stratVars, disable_adapters, disable_projectors,
                   res_val, reallocation_history, fileVars>>

\* a shortcut threshold taken over the LoRA and the shortcut scores together
AgsCandidatesPooled(al, agl) == al \o agl

\* the list the shortcut family is thresholded over: ags_alpha_list
AgsCandidates(al, agl) == agl

\* ags_mode separated: a threshold per family, the LoRA family first
DecideTurnOnSeparated(w) ==
    /\ pc[w] = "ags_selecting"
    /\ ags_mode = "separated"
    /\ LET al == AlphaList(res_val[w])
           agl == AlphaList(ags_res_val[w])
           b == Budget(turn_on_percentile, Len(al))
           ab == Round(turn_on_percentile, Len(agl))
           kept == Thresholded(al, b, rng[w], rng_state[w])
           ags_kept == Thresholded(AgsCandidates(al, agl), ab, kept.rng, kept.rng_state)
           both == kept.turn_on \o ags_kept.turn_on
       IN  IF Len(al) = 0 \/ Len(agl) = 0
           THEN /\ pc' = Upd(pc, w, "raised")
                /\ UNCHANGED <<grad, evalVars, rngVars, budget, turn_on, ags_budget>>
           ELSE /\ rng' = Upd(rng, w, ags_kept.rng)
                /\ rng_state' = Upd(rng_state, w, ags_kept.rng_state)
                /\ turn_on' = Upd(turn_on, w, both)
                /\ budget' = Upd(budget, w, b)
                /\ ags_budget' = Upd(ags_budget, w, ab)
                \* assert len(turn_on) == budget + ags_budget
                /\ pc' = Upd(pc, w, IF Len(both) = b + ab
                                    THEN "appending" ELSE "raised")
    /\ UNCHANGED <<grad, evalVars, loopVars, confVars, setupVars, snipVars, synVars, alphaVars, ags_res_val,
                   disable_adapters, disable_projectors, res_val,
                   reallocation_history, fileVars>>

(***************************************************************************)
(* reallocation(), ags_mode off: decide which modules to keep (629-657).   *)
(***************************************************************************)
DecideTurnOn(w) ==
    /\ pc[w] = "selecting"
    /\ ~AgsOn
    /\ LET al == AlphaList(res_val[w])
           b == Budget(turn_on_percentile, Len(al))
       IN  IF Len(al) = 0
           THEN \* np.concatenate of an empty list raises ValueError
                /\ pc' = Upd(pc, w, "raised")
                /\ UNCHANGED <<rngVars, budget, turn_on>>
           ELSE IF IsTied(al, AlphaThreshold(al, b))
           THEN LET tb == TieBreak(al, b, TieBreakSource(rng[w], rng_state[w]))
                IN  /\ rng' = Upd(rng, w, tb.state)
                    /\ rng_state' = Upd(rng_state, w, tb.state)
                    /\ turn_on' = Upd(turn_on, w, tb.turn_on)
                    /\ budget' = Upd(budget, w, b)
                    \* assert len(turn_on) == budget
                    /\ pc' = Upd(pc, w, IF Len(tb.turn_on) = b
                                        THEN "appending" ELSE "raised")
           ELSE LET top == TopBudget(al, b)
                IN  /\ turn_on' = Upd(turn_on, w, top)
                    /\ budget' = Upd(budget, w, b)
                    /\ pc' = Upd(pc, w, IF Len(top) = b
                                        THEN "appending" ELSE "raised")
                    /\ UNCHANGED rngVars
    /\ UNCHANGED <<loopVars, confVars, setupVars, stratVars, disable_adapters, disable_projectors, res_val,
                   reallocation_history, fileVars>>

(***************************************************************************)
(* reallocation(): the history event of the round (659-675).               *)
(***************************************************************************)
\* an event that reports every scored module as turned on
ReallocationEventAllOn(al, kept, epoch, step) ==
    [epoch |-> epoch,
     step |-> step,
     turn_on |-> [i \in 1 .. Len(al) |->
                    <<al[i][1], HashKeys[al[i][2] + 1], al[i][3], TRUE>>]]

\* reallocation = [[layer_idx, name, alpha, [layer_idx, proj_hash] in turn_on]
\* for ... in alpha_list.tolist()] and the dict appended to the history
ReallocationEvent(al, kept, epoch, step) ==
    [epoch |-> epoch,
     step |-> step,
     turn_on |-> [i \in 1 .. Len(al) |->
                    <<al[i][1], HashKeys[al[i][2] + 1], al[i][3],
                      <<al[i][1], al[i][2]>> \in Range(kept)>>]]

AppendHistory(w) ==
    /\ pc[w] = "appending"
    /\ reallocation_history' =
          Upd(reallocation_history, w,
              Append(reallocation_history[w],
                     ReallocationEvent(AlphaList(res_val[w]) \o AlphaList(ags_res_val[w]),
                                       turn_on[w],
                                       current_epoch[w], batch_idx[w])))
    /\ pc' = Upd(pc, w, "applying")
    /\ UNCHANGED <<loopVars, confVars, setupVars, stratVars, disable_adapters, disable_projectors, rngVars, selVars, fileVars>>

(***************************************************************************)
(* reallocation(): turn on/off lora modules (677-709).                     *)
(***************************************************************************)
\* the assignment with the membership test the wrong way round
AppliedInverted(flags, kept) ==
    [a \in Adapters |->
        IF IsLive(a) THEN <<a[1], LORA_NAME_HASH[a[2]]>> \in Range(kept)
        ELSE flags[a]]

Applied(flags, kept) ==
    [a \in Adapters |->
        IF IsLive(a) THEN <<a[1], LORA_NAME_HASH[a[2]]>> \notin Range(kept)
        ELSE flags[a]]

\* shortcut.disable_projectors = [layer_idx, proj_hash] not in turn_on
AppliedProjectors(flags, kept) ==
    [s \in Shortcuts |->
        IF IsLiveShortcut(s) THEN <<s[1], LORA_NAME_HASH[s[2]]>> \notin Range(kept)
        ELSE flags[s]]

ApplyTurnOn(w) ==
    /\ pc[w] = "applying"
    /\ disable_adapters' = Upd(disable_adapters, w, Applied(disable_adapters[w], turn_on[w]))
    /\ disable_projectors' =
          IF AgsOn
          THEN Upd(disable_projectors, w, AppliedProjectors(disable_projectors[w], turn_on[w]))
          ELSE disable_projectors
    /\ pc' = Upd(pc, w, "saving")
    /\ UNCHANGED <<loopVars, confVars, setupVars, stratVars, rngVars, selVars,
                   reallocation_history, fileVars>>

(***************************************************************************)
(* save_reallocation_history (1648-1685).                                  *)
(***************************************************************************)
NoFile == [written |-> FALSE]

\* a save that writes the event of the last round only
HistoryDocLastOnly(h, name) ==
    [written |-> TRUE,
     max_alpha |-> IF name = "alpha_test" THEN ALPHA_UB ELSE -1,
     dyrealloc |-> IF h = <<>> THEN <<>> ELSE <<<<0, h[Len(h)]>>>>]

\* the history document: key dyrealloc_i is the pair <<i, event>>
HistoryDoc(h, name) ==
    [written |-> TRUE,
     max_alpha |-> IF name = "alpha_test" THEN ALPHA_UB ELSE -1,
     dyrealloc |-> [i \in 1 .. Len(h) |-> <<i - 1, h[i]>>]]

\* the inner loop over reallocation["turn_on"]
RECURSIVE CountRows(_, _)
CountRows(rows, freq) ==
    IF rows = <<>> THEN freq
    ELSE LET key == <<Head(rows)[1], Head(rows)[2]>>
             turned_on == Head(rows)[4]
             next == IF turned_on
                     THEN IF key \in DOMAIN freq
                          THEN [freq EXCEPT ![key] = freq[key] + 1]
                          ELSE freq @@ (key :> 1)
                     ELSE IF key \in DOMAIN freq
                          THEN freq
                          ELSE freq @@ (key :> 0)
         IN  CountRows(Tail(rows), next)

\* the outer loop over self.reallocation_history
RECURSIVE CountEvents(_, _)
CountEvents(h, freq) ==
    IF h = <<>> THEN freq
    ELSE CountEvents(Tail(h), CountRows(Head(h).turn_on, freq))

\* a summary counted over the event of the last round only
FrequencyDocLastOnly(h) ==
    [written |-> TRUE,
     total_reallocation_number |-> Len(h),
     layers |-> IF h = <<>> THEN <<>> ELSE CountRows(h[Len(h)].turn_on, <<>>)]

FrequencyDoc(h) ==
    [written |-> TRUE,
     total_reallocation_number |-> Len(h),
     layers |-> CountEvents(h, <<>>)]

\* a save that every worker carries out
NeverReturnsEarly(w) == FALSE

\* if torch.cuda.current_device() != 0: return; worker w runs on device w
ReturnsEarly(w) == w # 0

SaveReallocationHistory(w) ==
    /\ pc[w] = "saving"
    /\ IF ReturnsEarly(w)
       THEN UNCHANGED fileVars
       ELSE /\ history_file' = HistoryDoc(reallocation_history[w], importance_test_name)
            /\ frequency_file' = FrequencyDoc(reallocation_history[w])
    /\ pc' = Upd(pc, w, "training_step")
    /\ UNCHANGED <<loopVars, confVars, setupVars, stratVars, disable_adapters, disable_projectors, rngVars, selVars,
                   reallocation_history>>


(***************************************************************************)
(* Spec: one worker on device 0 running trainer.fit with the callback,     *)
(* constant or grad_norm importance test, ags_mode off.                    *)
(***************************************************************************)
LoraRank == 8

AllLive == [a \in Adapters |-> LoraRank]

\* every adapter configured, or the k_proj adapter of layer 0 left at rank 0
FitRanks == {AllLive, [AllLive EXCEPT ![<<0, "k_proj">>] = 0]}

\* the metric _test measures with every adapter at full scale, per task
ReferenceMetric(t) ==
    IF t = "causal_language_modeling" THEN <<20, 1>>
    ELSE IF t = "classification" THEN <<4, 5>> ELSE <<2, 5>>

\* metrics a probe may measure: inside the tolerance, at the threshold, outside
ProbeMetrics(t) ==
    IF t = "causal_language_modeling"
    THEN {<<10001, 500>>, <<8001, 400>>, <<2001, 100>>}
    ELSE IF t = "classification"
    THEN {<<77, 100>>, <<19, 25>>, <<3, 4>>}
    ELSE {<<39, 100>>, <<19, 50>>, <<37, 100>>}

\* the metric as a function of the scale index of the probed adapter: one
\* value below a cut, another from the cut on, the reference at full scale
MetricProfiles(t) ==
    {[k \in 0 .. ALPHA_UB |->
         IF k = ALPHA_UB THEN ReferenceMetric(t)
         ELSE IF k < cut THEN lo ELSE hi] :
       cut \in 0 .. ALPHA_UB, lo \in ProbeMetrics(t), hi \in ProbeMetrics(t)}

\* the settings of the strategies a run does not use
NoSnipConf == limit_test_batches = 1

NoSynflowConf ==
    /\ tie_word_embeddings = FALSE
    /\ checkpoint = [c \in Tensors(FALSE) |-> 3]

NoAlphaConf ==
    /\ task = "classification"
    /\ metric_reduction_tolerance = <<1, 20>>
    /\ val_metric_at = [k \in 0 .. ALPHA_UB |-> ReferenceMetric("classification")]

\* N and limit_test_batches given as int
\* one device, whose dataloader has the batches of an epoch
OneDevice == train_dataloader = StepsPerEpoch /\ num_devices = 1

IntConf ==
    /\ N_type = "int" /\ N_fraction = <<0, 1>>
    /\ limit_type = "int" /\ limit_fraction = <<0, 1>>
    /\ OneDevice

NoAgsConf ==
    /\ training_dataset = TrainSetSize
    /\ validation_dataset = ValSetSize
    /\ ags_mode = "off"
    /\ ags_layers = FALSE
    /\ shortcut_r = [s \in Shortcuts |-> 0]
    /\ ags_importance = [s \in Shortcuts |-> 0]

\* the models, generators and callback fields of the workers W
InitFields(W) ==
    /\ batch_idx = [w \in W |-> 0]
    /\ current_epoch = [w \in W |-> 0]
    /\ res_val = [w \in W |-> <<>>]
    /\ budget = [w \in W |-> 0]
    /\ turn_on = [w \in W |-> <<>>]
    /\ reallocation_history = [w \in W |-> <<>>]
    /\ history_file = NoFile
    /\ frequency_file = NoFile
    /\ test_i = [w \in W |-> 0]
    /\ requires_grad = [w \in W |-> MarkOnlyLoraAsTrainable]
    /\ forward = [w \in W |-> [a \in Adapters |-> "forward"]]
    /\ original_require_grad = [w \in W |-> <<>>]
    /\ original_forward = [w \in W |-> <<>>]
    /\ tensor = [w \in W |-> checkpoint]
    /\ signs = [w \in W |-> <<>>]
    /\ original_val_metrics = [w \in W |-> <<0, 1>>]
    /\ cursor = [w \in W |-> 0]
    /\ lb = [w \in W |-> 0]
    /\ rb = [w \in W |-> 0]
    /\ val_metrics = [w \in W |-> <<0, 1>>]
    /\ exceeded = [w \in W |-> FALSE]
    /\ importance_alpha = [w \in W |-> [a \in Adapters |-> ALPHA_UB]]
    /\ disable_projectors = [w \in W |-> [s \in Shortcuts |-> FALSE]]
    /\ ags_res_val = [w \in W |-> <<>>]
    /\ ags_budget = [w \in W |-> 0]
    /\ interleave_idx = [w \in W |-> <<>>]
    /\ ags_interleave_idx = [w \in W |-> <<>>]
    /\ importance_beta = [w \in W |-> [s \in Shortcuts |-> ALPHA_UB]]
    /\ test_calls = [w \in W |-> <<>>]
    /\ grad = [w \in W |-> [x \in NamedParameters |-> 0]]

\* the callback objects, models and generators of the workers W after
\* construction; self.rng_state = self.rng.get_state()
\* the models as built: LoraLinear.disable_adapters = False
InitObjects(W) ==
    /\ disable_adapters = [w \in W |-> [a \in Adapters |-> FALSE]]
    /\ InitFields(W)

InitWorker(W) ==
    /\ pc = [w \in W |-> "constructed"]
    /\ InitObjects(W)

Init ==
    /\ importance_test_name \in {"constant", "grad_norm"}
    /\ N \in {1, 2}
    /\ turn_on_percentile \in {<<1, 4>>, <<1, 2>>}
    /\ r \in FitRanks
    /\ importance \in IF importance_test_name = "constant"
                      THEN {[a \in Adapters |-> 10]}
                      ELSE [Adapters -> {1, 5}]
    /\ NoSnipConf /\ NoSynflowConf /\ NoAlphaConf
    /\ rng \in [{0} -> RngStates]
    /\ rng_state = rng
    /\ NoAgsConf
    /\ IntConf
    /\ InitWorker({0})

Next ==
    \/ \E w \in Workers : Setup(w)
    \/ \E w \in Workers : SkipReallocation(w)
    \/ \E w \in Workers : StartReallocation(w)
    \/ \E w \in Workers : ConstTest(w)
    \/ \E w \in Workers : GradNormTest(w)
    \/ \E w \in Workers : GradNormRaises(w)
    \/ \E w \in Workers : DecideTurnOn(w)
    \/ \E w \in Workers : AppendHistory(w)
    \/ \E w \in Workers : ApplyTurnOn(w)
    \/ \E w \in Workers : SaveReallocationHistory(w)
    \/ \E w \in Workers : TrainingStep(w)

Spec == Init /\ [][Next]_vars

(***************************************************************************)
(* SpecSelect: one reallocation round of one worker, grad_norm scores,     *)
(* over every set of live adapters, every score list and every             *)
(* turn_on_percentile of Percentiles.                                      *)
(***************************************************************************)
AnyRanks == [Adapters -> {0, LoraRank}]

InitSelect ==
    /\ importance_test_name = "grad_norm"
    /\ N = 1
    /\ turn_on_percentile \in Percentiles
    /\ r \in AnyRanks
    /\ importance \in {f \in [Adapters -> ScoreValues] :
                          \A a \in Adapters : r[a] = 0 => f[a] = 1}
    /\ NoSnipConf /\ NoSynflowConf /\ NoAlphaConf
    /\ rng \in [{0} -> RngStates]
    /\ rng_state = rng
    /\ NoAgsConf
    /\ IntConf
    /\ InitWorker({0})

NextSelect ==
    \/ \E w \in Workers : Setup(w)
    \/ \E w \in Workers : StartReallocation(w)
    \/ \E w \in Workers : GradNormTest(w)
    \/ \E w \in Workers : DecideTurnOn(w)
    \/ \E w \in Workers : AppendHistory(w)
    \/ \E w \in Workers : ApplyTurnOn(w)
    \/ \E w \in Workers : SaveReallocationHistory(w)

SpecSelect == InitSelect /\ [][NextSelect]_vars

(***************************************************************************)
(* SpecReplay: the same round run twice, by two callback objects that      *)
(* captured the same rng_state and measure the same scores; the second run *)
(* starts when the first has left the callback.  The default generators of *)
(* the two runs are in unrelated states when the round starts.             *)
(***************************************************************************)
\* the adapters of layers 0 and 1 only
TwoLayerRanks == [a \in Adapters |-> IF a[1] < 2 THEN LoraRank ELSE 0]

\* the adapters of layer 0 and the q_proj adapter of layer 1
ThreeLiveRanks == [TwoLayerRanks EXCEPT ![<<1, "k_proj">>] = 0]

InitReplay ==
    /\ importance_test_name = "grad_norm"
    /\ N = 1
    /\ turn_on_percentile \in Percentiles
    /\ r \in {TwoLayerRanks, ThreeLiveRanks}
    /\ importance \in {f \in [Adapters -> ScoreValues] :
                          \A a \in Adapters : r[a] = 0 => f[a] = 1}
    /\ NoSnipConf /\ NoSynflowConf /\ NoAlphaConf
    /\ \E s \in RngStates : /\ rng = [w \in {0, 1} |-> s]
                            /\ rng_state = rng
    /\ NoAgsConf
    /\ IntConf
    /\ InitWorker({0, 1})

Left(w) == pc[w] \in {"training_step", "raised"}

Turn(w) == \A v \in Workers : v < w => Left(v)

NextReplay ==
    \/ \E w \in Workers : Turn(w) /\ Setup(w)
    \/ \E w \in Workers : Turn(w) /\ StartReallocation(w)
    \/ \E w \in Workers : Turn(w) /\ GradNormTest(w)
    \/ \E w \in Workers : Turn(w) /\ DecideTurnOn(w)
    \/ \E w \in Workers : Turn(w) /\ AppendHistory(w)
    \/ \E w \in Workers : Turn(w) /\ ApplyTurnOn(w)
    \/ \E w \in Workers : Turn(w) /\ SaveReallocationHistory(w)

SpecReplay == InitReplay /\ [][NextReplay]_vars

(***************************************************************************)
(* SpecSnip: one worker running trainer.fit with the snip importance test, *)
(* so that a round meets adapters an earlier round switched off.           *)
(***************************************************************************)
\* the scores a zero-cost proxy measures in a run: one projection, one layer
\* or no adapter stands out
ZeroCostScores ==
    {[a \in Adapters |-> IF a[2] = x THEN 5 ELSE 1] : x \in Projs \cup {"none"}}
    \cup {[a \in Adapters |-> IF a[1] = l THEN 5 ELSE 1] : l \in Layers}

InitSnip ==
    /\ importance_test_name = "snip"
    /\ N \in {1, 2}
    /\ turn_on_percentile \in {<<1, 4>>, <<1, 2>>}
    /\ r \in FitRanks
    /\ importance \in ZeroCostScores
    /\ limit_test_batches \in {0, 1, 2}
    /\ NoSynflowConf /\ NoAlphaConf
    /\ rng \in [{0} -> RngStates]
    /\ rng_state = rng
    /\ NoAgsConf
    /\ IntConf
    /\ InitWorker({0})

NextSnip ==
    \/ \E w \in Workers : Setup(w)
    \/ \E w \in Workers : SkipReallocation(w)
    \/ \E w \in Workers : StartReallocation(w)
    \/ \E w \in Workers : SnipPatch(w)
    \/ \E w \in Workers : SnipBackward(w)
    \/ \E w \in Workers : SnipBackwardRaises(w)
    \/ \E w \in Workers : SnipScore(w)
    \/ \E w \in Workers : DecideTurnOn(w)
    \/ \E w \in Workers : AppendHistory(w)
    \/ \E w \in Workers : ApplyTurnOn(w)
    \/ \E w \in Workers : SaveReallocationHistory(w)
    \/ \E w \in Workers : TrainingStep(w)

SpecSnip == InitSnip /\ [][NextSnip]_vars

(***************************************************************************)
(* SpecSynflow: one reallocation round with the synflow importance test,   *)
(* over every model state of ParamValues, tied and untied embeddings.      *)
(***************************************************************************)
InitSynflow ==
    /\ importance_test_name = "synflow"
    /\ N = 1
    /\ turn_on_percentile = <<1, 2>>
    /\ r = AllLive
    /\ importance \in ZeroCostScores
    /\ tie_word_embeddings \in BOOLEAN
    /\ checkpoint \in [Tensors(tie_word_embeddings) -> ParamValues]
    /\ NoSnipConf /\ NoAlphaConf
    /\ rng \in [{0} -> RngStates]
    /\ rng_state = rng
    /\ NoAgsConf
    /\ IntConf
    /\ InitWorker({0})

NextSynflow ==
    \/ \E w \in Workers : Setup(w)
    \/ \E w \in Workers : StartReallocation(w)
    \/ \E w \in Workers : SynflowLinearize(w)
    \/ \E w \in Workers : SynflowRaises(w)
    \/ \E w \in Workers : SynflowScore(w)
    \/ \E w \in Workers : DecideTurnOn(w)
    \/ \E w \in Workers : AppendHistory(w)
    \/ \E w \in Workers : ApplyTurnOn(w)
    \/ \E w \in Workers : SaveReallocationHistory(w)

SpecSynflow == InitSynflow /\ [][NextSynflow]_vars

(***************************************************************************)
(* SpecAlpha: one reallocation round with the alpha importance test, over  *)
(* the three tasks and every metric profile of MetricProfiles.             *)
(***************************************************************************)
InitAlpha ==
    /\ importance_test_name = "alpha_test"
    /\ N = 1
    /\ turn_on_percentile = <<1, 2>>
    /\ r = AllLive
    /\ importance = [a \in Adapters |-> 1]
    /\ task \in Tasks
    /\ metric_reduction_tolerance = <<1, 20>>
    /\ val_metric_at \in MetricProfiles(task)
    /\ NoSnipConf /\ NoSynflowConf
    /\ rng \in [{0} -> RngStates]
    /\ rng_state = rng
    /\ NoAgsConf
    /\ IntConf
    /\ InitWorker({0})

NextAlpha ==
    \/ \E w \in Workers : Setup(w)
    \/ \E w \in Workers : StartReallocation(w)
    \/ \E w \in Workers : AlphaStart(w)
    \/ \E w \in Workers : AlphaProbe(w)
    \/ \E w \in Workers : AlphaRecord(w)
    \/ \E w \in Workers : DecideTurnOn(w)
    \/ \E w \in Workers : AppendHistory(w)
    \/ \E w \in Workers : ApplyTurnOn(w)
    \/ \E w \in Workers : SaveReallocationHistory(w)

SpecAlpha == InitAlpha /\ [][NextAlpha]_vars


(***************************************************************************)
(* Claims.                                                                 *)
(***************************************************************************)
\* the round of worker w has passed the selection step
Decided(w) == pc[w] \in {"appending", "applying", "saving", "training_step"}

\* the selection step of worker w ended in the failed assertion
AssertionFailed(w) == pc[w] = "raised" /\ Len(res_val[w]) > 0

Kept(w) == Range(turn_on[w])

NumLive == Cardinality({a \in Adapters : IsLive(a)})

\* floor(turn_on_percentile * n), stated without the division
IsFloorOfShare(b, n) ==
    /\ b * turn_on_percentile[2] <= turn_on_percentile[1] * n
    /\ (b + 1) * turn_on_percentile[2] > turn_on_percentile[1] * n

\* C1: budget exactness.  For every non-empty score list and every
\* turn_on_percentile in (0, 1] the selection step ends with a kept set of
\* exactly floor(turn_on_percentile * number of scored modules) members,
\* floor 0 included, and the assertion len(turn_on) == budget never fails.
C1_BudgetExactness ==
    \A w \in Workers :
        /\ ~AssertionFailed(w)
        /\ Decided(w) => /\ Cardinality(Kept(w)) = Len(turn_on[w])
                         /\ IsFloorOfShare(Len(turn_on[w]), NumLive)

\* C1, the part that holds: whenever the floor is at least 1 the kept set has
\* exactly that many members and the assertion passes
C1_ExactWhenPositive ==
    \A w \in Workers :
        (pc[w] \in {"appending", "applying", "saving", "training_step", "raised"}
         /\ Len(res_val[w]) > 0
         /\ turn_on_percentile[1] * NumLive >= turn_on_percentile[2])
        => /\ pc[w] # "raised"
           /\ Cardinality(Kept(w)) = Len(turn_on[w])
           /\ IsFloorOfShare(Len(turn_on[w]), NumLive)

\* C2: tie determinism.  Two runs of the selection step from the same
\* captured rng_state and the same score list keep the same set and leave
\* the same rng_state behind.
C2_TieDeterminism ==
    \A v, w \in Workers :
        (Decided(v) /\ Decided(w))
        => /\ Kept(v) = Kept(w)
           /\ rng_state[v] = rng_state[w]

\* the cutoff of the decided round of worker w is shared by more modules
\* than there are slots left for them
ChoseAmongTies(w) ==
    /\ Decided(w)
    /\ \E x \in Range(AlphaList(res_val[w])) :
          /\ <<x[1], x[2]>> \in Kept(w)
          /\ \E y \in Range(AlphaList(res_val[w])) :
                /\ y[3] = x[3]
                /\ <<y[1], y[2]>> \notin Kept(w)

C2_Witness ==
    /\ Decided(0) /\ Decided(1)
    /\ ChoseAmongTies(0) /\ ChoseAmongTies(1)

\* C5: the end-to-end scenario.  Four live adapters scored (0,q)=0.9,
\* (0,k)=0.1, (1,q)=0.5, (1,k)=0.5 and turn_on_percentile 0.5: every round
\* keeps exactly two adapters, (0,q) always, (0,k) never, exactly one of
\* (1,q) and (1,k), and the same one in two runs from the same rng_state.
C5_Scenario ==
    /\ r = TwoLayerRanks
    /\ turn_on_percentile = <<1, 2>>
    /\ importance[<<0, "q_proj">>] = 9
    /\ importance[<<0, "k_proj">>] = 1
    /\ importance[<<1, "q_proj">>] = 5
    /\ importance[<<1, "k_proj">>] = 5

C5_EndToEnd ==
    C5_Scenario =>
        /\ \A w \in Workers : pc[w] # "raised"
        /\ \A w \in Workers :
              Decided(w) => /\ Len(turn_on[w]) = 2
                            /\ Cardinality(Kept(w)) = 2
                            /\ <<0, 0>> \in Kept(w)
                            /\ <<0, 1>> \notin Kept(w)
                            /\ (<<1, 0>> \in Kept(w)) # (<<1, 1>> \in Kept(w))
        /\ \A v, w \in Workers : (Decided(v) /\ Decided(w)) => Kept(v) = Kept(w)

C5_Witness ==
    /\ C5_Scenario
    /\ Decided(0) /\ Decided(1)
    /\ Kept(1) = {<<0, 0>>, <<1, 1>>}


\* the batches of one epoch at which a round is due
RoundsPerEpoch == Cardinality({i \in 0 .. (StepsPerEpoch - 1) : i % N = 0})

\* the rounds that have run to completion on worker w, counted from the
\* position of the training loop
Completed(w) ==
    IF pc[w] = "constructed" THEN 0
    ELSE current_epoch[w] * RoundsPerEpoch
         + Cardinality({i \in 0 .. (batch_idx[w] - 1) : i % N = 0})
         + (IF pc[w] = "training_step" /\ batch_idx[w] % N = 0 THEN 1 ELSE 0)

C6_Complete ==
    LET K == Completed(0)
    IN  K >= 1 =>
          /\ history_file.written
          /\ Len(history_file.dyrealloc) = K
          /\ \A i \in 1 .. K :
                /\ history_file.dyrealloc[i][1] = i - 1
                /\ history_file.dyrealloc[i][2].epoch = (i - 1) \div RoundsPerEpoch
                /\ history_file.dyrealloc[i][2].step = ((i - 1) % RoundsPerEpoch) * N
          /\ frequency_file.written
          /\ frequency_file.total_reallocation_number = K

C6_NoRewrite ==
    history_file.written =>
        /\ history_file'.written
        /\ Len(history_file'.dyrealloc) >= Len(history_file.dyrealloc)
        /\ \A i \in 1 .. Len(history_file.dyrealloc) :
              history_file'.dyrealloc[i] = history_file.dyrealloc[i]

\* C6: the history is append-only and complete.  After K rounds that ran to
\* completion on the coordinating worker the persisted history holds exactly
\* K events keyed dyrealloc_0 .. dyrealloc_{K-1} in the order the rounds
\* happened, the frequency summary has total_reallocation_number = K, and no
\* step alters an event that was persisted earlier.
C6_HistoryAppendOnly == [](C6_Complete) /\ [][C6_NoRewrite]_vars

C6_Witness ==
    /\ pc[0] = "training_step"
    /\ Completed(0) >= 3
    /\ history_file.written
    /\ Len(history_file.dyrealloc) >= 3
    /\ history_file.dyrealloc[2][2].turn_on # history_file.dyrealloc[3][2].turn_on

\* C10: the trigger rule.  A batch start runs a reallocation round if and
\* only if batch_idx mod N = 0; at any other batch start the callback returns
\* and changes no adapter flag, no history entry, no file and no RNG state.
C10_TriggerRule ==
    [][\A w \in Workers :
          (pc[w] = "batch_start" /\ pc'[w] # "batch_start") =>
              IF batch_idx[w] % N = 0
              THEN pc'[w] = "importance_test"
              ELSE /\ pc'[w] = "training_step"
                   /\ disable_adapters'[w] = disable_adapters[w]
                   /\ reallocation_history'[w] = reallocation_history[w]
                   /\ rng_state'[w] = rng_state[w]
                   /\ rng'[w] = rng[w]
                   /\ UNCHANGED fileVars]_vars

C10_Witness ==
    /\ pc[0] = "training_step"
    /\ batch_idx[0] % N # 0
    /\ Len(reallocation_history[0]) >= 1
    /\ \E a \in Adapters : disable_adapters[0][a]

\* the parameters worker w had before the call have the flags they had
FlagsAsBefore(w) ==
    \A x \in DOMAIN requires_grad[w] :
        requires_grad[w][x] = (x \in NamedParameters /\ MarkOnlyLoraAsTrainable[x])

\* no adapter of worker w is routed through the weight masks
ForwardsAsBefore(w) == \A a \in Adapters : forward[w][a] = "forward"

\* worker w is past a SNIP call that returned
SnipReturned(w) ==
    /\ importance_test_name = "snip"
    /\ pc[w] \in {"selecting", "appending", "applying", "saving", "training_step",
                  "batch_start", "fit_done"}
    /\ original_forward[w] # <<>>

\* C7: the SNIP round-trip inside a reallocation round.  When _snip_test has
\* returned normally every parameter that existed before the call has the
\* requires_grad flag it had before the call, and every adapter has its
\* original forward back.
C7_SnipRoundTrip ==
    \A w \in Workers : SnipReturned(w) => FlagsAsBefore(w) /\ ForwardsAsBefore(w)

\* the second SNIP call of a run has returned, and the round before it had
\* switched an adapter off
C7_Witness ==
    /\ SnipReturned(0)
    /\ pc[0] = "selecting"
    /\ Len(reallocation_history[0]) >= 1
    /\ \E i \in 1 .. Len(reallocation_history[0][1].turn_on) :
          ~reallocation_history[0][1].turn_on[i][4]
    /\ \E x \in DOMAIN requires_grad[0] : x[2] \in MaskNames
    /\ \E x \in DOMAIN requires_grad[0] : requires_grad[0][x]

\* worker w is past a SynFlow call that returned
SynflowReturned(w) ==
    /\ importance_test_name = "synflow"
    /\ pc[w] \in {"selecting", "appending", "applying", "saving", "training_step"}
    /\ signs[w] # <<>>

\* C8: the SynFlow round-trip.  When _synflow_test has returned normally
\* every entry of the model state, positive, negative or zero, has the value
\* it had before the call.
C8_SynflowRoundTrip ==
    \A w \in Workers : SynflowReturned(w) => tensor[w] = checkpoint

\* a returned call on tied embeddings whose state held a negative, a zero
\* and a positive entry
C8_Witness ==
    /\ SynflowReturned(0)
    /\ tie_word_embeddings
    /\ checkpoint["embed_tokens.weight"] < 0
    /\ checkpoint["lora_A.weight"] = 0
    /\ checkpoint["lora_B.weight"] > 0
    /\ signs[0]["lm_head.weight"] = 1

\* C9: the unconditional restore.  If an exception is raised while SNIP or
\* SynFlow is scoring, the requires_grad flags, the adapter forwards and the
\* signed parameter values are back at their values of before the call when
\* the exception leaves the strategy.
C9_UnconditionalRestore ==
    \A w \in Workers :
        pc[w] = "raised" => /\ FlagsAsBefore(w)
                            /\ ForwardsAsBefore(w)
                            /\ tensor[w] = checkpoint

\* check_exceed_threshold at scale index k, for the reference at full scale
ExceedsAt(k) ==
    CheckExceedThreshold(task, val_metric_at[k], val_metric_at[ALPHA_UB],
                         metric_reduction_tolerance)

\* once the check passes at k it passes at every larger k, and at ALPHA_UB
MonotoneMetric ==
    /\ ~ExceedsAt(ALPHA_UB)
    /\ \A j, k \in 0 .. ALPHA_UB : (j < k /\ ~ExceedsAt(j)) => ~ExceedsAt(k)

\* C3: bisection minimality.  For a metric that is monotone in the scale
\* index, the value recorded for an adapter is the smallest k in 0..10 for
\* which check_exceed_threshold is false at scale k/10.
C3_BisectionMinimality ==
    (importance_test_name = "alpha_test" /\ MonotoneMetric) =>
        \A w \in Workers : \A i \in 1 .. Len(res_val[w]) :
            /\ res_val[w][i][3] \in 0 .. ALPHA_UB
            /\ ~ExceedsAt(res_val[w][i][3])
            /\ \A j \in 0 .. (res_val[w][i][3] - 1) : ExceedsAt(j)

\* a recorded value strictly inside 0..10 that took the four probes 5, 2, 3, 4
C3_Witness ==
    /\ importance_test_name = "alpha_test"
    /\ MonotoneMetric
    /\ pc[0] = "selecting"
    /\ Len(res_val[0]) = Cardinality(LiveAdapters)
    /\ res_val[0][1][3] = 4

\* worker w has probed the adapter it is searching
Probed(w) ==
    /\ pc[w] = "alpha_search"
    /\ \E a \in Adapters : importance_alpha[w][a] # ALPHA_UB

\* metric v exceeds the threshold of task t for reference m and tolerance
\* tol, stated without division: v > m + tol / m for perplexity,
\* v < m - m * tol for accuracy and rouge
ExceedsAsSpecified(t, v, m, tol) ==
    IF t = "causal_language_modeling"
    THEN v[1] * m[2] * tol[2] * m[1]
           > m[1] * m[1] * tol[2] * v[2] + tol[1] * m[2] * m[2] * v[2]
    ELSE v[1] * m[2] * tol[2] < m[1] * (tol[2] - tol[1]) * v[2]

\* reference 20.0 and tolerance 0.05 on causal_language_modeling
PerplexityScenario(w) ==
    /\ task = "causal_language_modeling"
    /\ original_val_metrics[w] = <<20, 1>>
    /\ metric_reduction_tolerance = <<1, 20>>

\* C4: the task-conditional threshold.  For causal_language_modeling the
\* threshold is reference + tolerance / reference and a probe exceeds it iff
\* metric > threshold: with reference 20.0 and tolerance 0.05 the threshold
\* is 20.0025, 20.002 does not exceed and 20.01 does.  For classification
\* and summarization the threshold is reference - reference * tolerance and
\* a probe exceeds it iff metric < threshold.
C4_TaskThreshold ==
    \A w \in Workers :
        Probed(w) =>
            /\ exceeded[w] = ExceedsAsSpecified(task, val_metrics[w],
                                                original_val_metrics[w],
                                                metric_reduction_tolerance)
            /\ PerplexityScenario(w) =>
                  LET thr == GetMetricThreshold(task, original_val_metrics[w],
                                                metric_reduction_tolerance)
                  IN  /\ thr[1] * 400 = 8001 * thr[2]
                      /\ val_metrics[w] = <<10001, 500>> => ~exceeded[w]
                      /\ val_metrics[w] = <<2001, 100>> => exceeded[w]

\* a perplexity probe of 20.01 against reference 20.0 was rejected
C4_Witness ==
    /\ Probed(0)
    /\ PerplexityScenario(0)
    /\ val_metrics[0] = <<2001, 100>>
    /\ exceeded[0]

(***************************************************************************)
(* SpecAgs: one worker running trainer.fit on a model whose decoder layers *)
(* carry shortcut modules, with the grad_norm importance tests and every   *)
(* ags_mode, so that a round meets modules an earlier round switched off.  *)
(***************************************************************************)
ShortcutRank == 4

AllShortcutsLive == [s \in Shortcuts |-> ShortcutRank]

\* every shortcut configured, or the shortcut_sa module of layer 0 missing
AgsRanks == {AllShortcutsLive, [AllShortcutsLive EXCEPT ![<<0, "shortcut_sa">>] = 0]}

\* the gradient norms of the shortcuts in a run: one kind of shortcut or no
\* shortcut stands out
AgsScores ==
    {[s \in Shortcuts |-> IF s[2] = x THEN 5 ELSE 1] : x \in ShortcutNames \cup {"none"}}

\* the gradient norms of the adapters in a run
AgsLoraScores ==
    {[a \in Adapters |-> IF a[2] = x THEN 5 ELSE 1] : x \in {"q_proj", "none"}}

InitAgs ==
    /\ importance_test_name = "grad_norm"
    /\ N = 2
    /\ turn_on_percentile \in {<<1, 4>>, <<1, 2>>}
    /\ r \in FitRanks
    /\ importance \in AgsLoraScores
    /\ NoSnipConf /\ NoSynflowConf /\ NoAlphaConf
    /\ ags_mode \in {"off", "combined", "separated"}
    /\ ags_layers = TRUE
    /\ training_dataset = TrainSetSize
    /\ validation_dataset = ValSetSize
    /\ shortcut_r \in AgsRanks
    /\ ags_importance \in AgsScores
    /\ rng \in [{0} -> RngStates]
    /\ rng_state = rng
    /\ IntConf
    /\ InitWorker({0})

NextAgs ==
    \/ \E w \in Workers : Setup(w)
    \/ \E w \in Workers : SkipReallocation(w)
    \/ \E w \in Workers : StartReallocation(w)
    \/ \E w \in Workers : GradNormTest(w)
    \/ \E w \in Workers : GradNormRaises(w)
    \/ \E w \in Workers : GradNormAgsTest(w)
    \/ \E w \in Workers : AgsTestRaises(w)
    \/ \E w \in Workers : DecideTurnOn(w)
    \/ \E w \in Workers : DecideTurnOnCombined(w)
    \/ \E w \in Workers : DecideTurnOnSeparated(w)
    \/ \E w \in Workers : AppendHistory(w)
    \/ \E w \in Workers : ApplyTurnOn(w)
    \/ \E w \in Workers : SaveReallocationHistory(w)
    \/ \E w \in Workers : TrainingStep(w)

SpecAgs == InitAgs /\ [][NextAgs]_vars

\* every live adapter and every live shortcut of worker w is enabled
AllLiveEnabled(w) ==
    /\ \A a \in Adapters : IsLive(a) => ~disable_adapters[w][a]
    /\ \A s \in Shortcuts : IsLiveShortcut(s) => ~disable_projectors[w][s]

RoundApplied(w) ==
    \/ pc[w] = "saving"
    \/ pc[w] = "training_step" /\ ~NotDue(batch_idx[w], N)

\* the [layer_idx, proj_hash] keys the selector of the round kept
KeptKeys(w) == {turn_on[w][i] : i \in 1 .. Len(turn_on[w])}

\* C12: after a round completes, every live adapter, and in the AGS modes
\* every live shortcut module, is enabled if and only if its
\* (layer_index, projection) key is in the kept set of that round.
C12_AppliedIffKept ==
    \A w \in Workers :
        RoundApplied(w) =>
            /\ \A a \in Adapters :
                  IsLive(a) =>
                      (~disable_adapters[w][a] <=> <<a[1], LORA_NAME_HASH[a[2]]>> \in KeptKeys(w))
            /\ AgsOn =>
                  \A s \in Shortcuts :
                      IsLiveShortcut(s) =>
                          (~disable_projectors[w][s]
                              <=> <<s[1], LORA_NAME_HASH[s[2]]>> \in KeptKeys(w))

\* a combined round has completed keeping some adapters and shortcuts and
\* switching others off
C12_Witness ==
    /\ RoundApplied(0)
    /\ ags_mode = "combined"
    /\ \E a, b \in Adapters :
          /\ IsLive(a) /\ IsLive(b)
          /\ disable_adapters[0][a] /\ ~disable_adapters[0][b]
    /\ \E s, t \in Shortcuts :
          /\ IsLiveShortcut(s) /\ IsLiveShortcut(t)
          /\ disable_projectors[0][s] /\ ~disable_projectors[0][t]

\* the event of the last round that ran to completion on worker w
LastEvent(w) == reallocation_history[w][Len(reallocation_history[w])]

\* the row of module key in event ev says turned_on
TurnedOnIn(ev, key) ==
    \E i \in 1 .. Len(ev.turn_on) :
        /\ ev.turn_on[i][1] = key[1]
        /\ ev.turn_on[i][2] = key[2]
        /\ ev.turn_on[i][4]

\* the flags of worker w when its current round started: the ones the last
\* completed round applied, or the ones of construction
FlagsBeforeRound(w) ==
    [a \in Adapters |->
        IF reallocation_history[w] # <<>> /\ IsLive(a)
        THEN ~TurnedOnIn(LastEvent(w), a)
        ELSE FALSE]

\* C13: if a round aborts with an error during scoring or selecting, every
\* adapter's enabled flag is the same as before that round started and no
\* history event was added.
C13_NoOpFallback ==
    \A w \in Workers :
        pc[w] = "raised" =>
            /\ disable_adapters[w] = FlagsBeforeRound(w)
            /\ Len(reallocation_history[w]) = Completed(w)

(***************************************************************************)
(* SpecWriters: two workers, on devices 0 and 1, each running trainer.fit  *)
(* with its own callback object and one round per epoch; the steps of the  *)
(* two workers interleave freely.                                          *)
(***************************************************************************)
\* gradient norms without a tie at the cutoff
DistinctScores ==
    [a \in Adapters |-> 2 * a[1] + LORA_NAME_HASH[a[2]] + 1]

InitWriters ==
    /\ importance_test_name = "grad_norm"
    /\ N = StepsPerEpoch
    /\ turn_on_percentile = <<1, 2>>
    /\ r = TwoLayerRanks
    /\ importance = DistinctScores
    /\ NoSnipConf /\ NoSynflowConf /\ NoAlphaConf
    /\ rng = [w \in {0, 1} |-> 0]
    /\ rng_state = rng
    /\ NoAgsConf
    /\ IntConf
    /\ InitWorker({0, 1})

NextWriters ==
    \/ \E w \in Workers : Setup(w)
    \/ \E w \in Workers : SkipReallocation(w)
    \/ \E w \in Workers : StartReallocation(w)
    \/ \E w \in Workers : GradNormTest(w)
    \/ \E w \in Workers : DecideTurnOn(w)
    \/ \E w \in Workers : AppendHistory(w)
    \/ \E w \in Workers : ApplyTurnOn(w)
    \/ \E w \in Workers : SaveReallocationHistory(w)
    \/ \E w \in Workers : TrainingStep(w)

SpecWriters == InitWriters /\ [][NextWriters]_vars

\* a step that leaves the save of the worker on device 0
CoordinatorSaves == pc[0] = "saving" /\ pc'[0] = "training_step"

\* C14: in a multi-worker run only the worker on device 0 writes the history
\* and frequency files: in every interleaving, a step that changes a file is
\* the save of worker 0, and the save of any other worker changes no file.
C14_SingleWriter ==
    [][(<<history_file, frequency_file>>' # <<history_file, frequency_file>>)
          => CoordinatorSaves]_vars

\* worker 1 has completed a save in its second round while worker 0 has
\* not yet saved its second round, and the files hold worker 0's first round
C14_Witness ==
    /\ pc[1] = "training_step"
    /\ Len(reallocation_history[1]) = 2
    /\ Len(reallocation_history[0]) = 1
    /\ history_file.written
    /\ Len(history_file.dyrealloc) = 1

(***************************************************************************)
(* SpecWorkers: two workers run the same round, each with its own callback *)
(* object; the default generator of each process is in a state of its own  *)
(* when the callback is constructed, and both measure the same scores.     *)
(***************************************************************************)
InitWorkers ==
    /\ importance_test_name = "grad_norm"
    /\ N = 1
    /\ turn_on_percentile \in {<<1, 4>>, <<1, 2>>}
    /\ r = TwoLayerRanks
    /\ importance \in AgsLoraScores \cup {DistinctScores}
    /\ NoSnipConf /\ NoSynflowConf /\ NoAlphaConf
    /\ rng \in [{0, 1} -> RngStates]
    /\ rng_state = rng
    /\ NoAgsConf
    /\ IntConf
    /\ InitWorker({0, 1})

NextWorkers ==
    \/ \E w \in Workers : Setup(w)
    \/ \E w \in Workers : StartReallocation(w)
    \/ \E w \in Workers : GradNormTest(w)
    \/ \E w \in Workers : DecideTurnOn(w)
    \/ \E w \in Workers : AppendHistory(w)
    \/ \E w \in Workers : ApplyTurnOn(w)
    \/ \E w \in Workers : SaveReallocationHistory(w)

SpecWorkers == InitWorkers /\ [][NextWorkers]_vars

\* C15: in a multi-worker run where every worker computes the same scores in
\* a round, all workers hold the same enabled flag for every adapter after
\* that round, also when scores tie at the cutoff.
C15_CrossWorkerAgreement ==
    \A v, w \in Workers :
        (RoundApplied(v) /\ RoundApplied(w) /\ res_val[v] = res_val[w])
            => disable_adapters[v] = disable_adapters[w]

(***************************************************************************)
(* SpecMixed: the alpha importance test builds its mixed dataloader from   *)
(* training and validation sets of any size up to ValSetSize.              *)
(***************************************************************************)
InitMixed ==
    /\ importance_test_name = "alpha_test"
    /\ N = 1
    /\ turn_on_percentile = <<1, 2>>
    /\ r = AllLive
    /\ importance = [a \in Adapters |-> 1]
    /\ NoSnipConf /\ NoSynflowConf /\ NoAlphaConf
    /\ ags_mode = "off"
    /\ ags_layers = FALSE
    /\ shortcut_r = [s \in Shortcuts |-> 0]
    /\ ags_importance = [s \in Shortcuts |-> 0]
    /\ training_dataset \in 1 .. ValSetSize
    /\ validation_dataset \in 1 .. ValSetSize
    /\ rng \in [{0} -> RngStates]
    /\ rng_state = rng
    /\ IntConf
    /\ InitWorker({0})

NextMixed ==
    \/ \E w \in Workers : Setup(w)
    \/ \E w \in Workers : StartReallocation(w)
    \/ \E w \in Workers : AlphaStart(w)

SpecMixed == InitMixed /\ [][NextMixed]_vars

Min(a, b) == IF a <= b THEN a ELSE b

\* the elements of the concatenation [training, validation] the stream of
\* worker w reads, in order
MixedStream(w) ==
    [k \in 1 .. Len(interleave_idx[w]) |->
        ConcatElement(training_dataset, interleave_idx[w][k])]

\* C16: for a training set of size T and a validation set of size V the
\* stream has length 2*min(T,V) + max(0, V-T); positions 0,2,4,... of the
\* paired prefix refer to distinct training elements, positions 1,3,5,... to
\* distinct validation elements, any leftover tail to the remaining
\* validation elements, and no element appears twice.
C16_MixedStream ==
    \A w \in Workers :
        pc[w] = "alpha_search" =>
            LET T == training_dataset
                V == validation_dataset
                paired == 2 * Min(T, V)
                stream == MixedStream(w)
            IN  /\ Len(stream) = paired + (IF V > T THEN V - T ELSE 0)
                /\ \A k \in 1 .. Len(stream) :
                      IF k <= paired /\ k % 2 = 1
                      THEN stream[k][1] = "training"
                      ELSE stream[k][1] = "validation"
                /\ \A j, k \in 1 .. Len(stream) : j # k => stream[j] # stream[k]

\* the events of the persisted history, in order
SavedHistory ==
    [i \in 1 .. Len(history_file.dyrealloc) |-> history_file.dyrealloc[i][2]]

\* the (layer, projection) modules with a row in some event of history h
ModulesIn(h) ==
    UNION {{<<h[i].turn_on[j][1], h[i].turn_on[j][2]>> : j \in 1 .. Len(h[i].turn_on)} :
              i \in 1 .. Len(h)}

\* C17: after every save on the coordinating worker the frequency summary
\* has an entry for exactly the modules that appear in some history event,
\* the entry counts the events of the whole history in which the module has
\* turned_on true (0 if it never has), and the summary is a function of the
\* history the worker holds.
C17_FrequencySummary ==
    frequency_file.written =>
        /\ pc[0] = "training_step" => SavedHistory = reallocation_history[0]
        /\ frequency_file.total_reallocation_number = Len(SavedHistory)
        /\ DOMAIN frequency_file.layers = ModulesIn(SavedHistory)
        /\ \A key \in ModulesIn(SavedHistory) :
              frequency_file.layers[key] =
                  Cardinality({i \in 1 .. Len(SavedHistory) : TurnedOnIn(SavedHistory[i], key)})

\* a save after three rounds: one module was kept in two or more rounds,
\* one was scored and never kept, and one adapter never appears
C17_Witness ==
    /\ pc[0] = "training_step"
    /\ frequency_file.written
    /\ frequency_file.total_reallocation_number = 3
    /\ \E key \in DOMAIN frequency_file.layers : frequency_file.layers[key] >= 2
    /\ \E key \in DOMAIN frequency_file.layers : frequency_file.layers[key] = 0
    /\ \E a \in Adapters : a \notin DOMAIN frequency_file.layers

(***************************************************************************)
(* SpecSeparated: one round of one worker with ags_mode separated, over    *)
(* every score list of the adapters and of the shortcuts.                  *)
(***************************************************************************)
\* the shortcuts of layers 0 and 1 only
TwoLayerShortcuts == [s \in Shortcuts |-> IF s[1] < 2 THEN ShortcutRank ELSE 0]

\* the shortcuts of layer 0 and the residual_1 shortcut of layer 1
ThreeLiveShortcuts == [TwoLayerShortcuts EXCEPT ![<<1, "shortcut_sa">>] = 0]

InitSeparated ==
    /\ importance_test_name = "grad_norm"
    /\ N = 1
    /\ turn_on_percentile \in {<<1, 4>>, <<1, 2>>, <<3, 4>>}
    /\ r \in {TwoLayerRanks, ThreeLiveRanks}
    /\ importance \in {f \in [Adapters -> {1, 5}] :
                          \A a \in Adapters : r[a] = 0 => f[a] = 1}
    /\ NoSnipConf /\ NoSynflowConf /\ NoAlphaConf
    /\ ags_mode = "separated"
    /\ ags_layers = TRUE
    /\ training_dataset = TrainSetSize
    /\ validation_dataset = ValSetSize
    /\ shortcut_r \in {TwoLayerShortcuts, ThreeLiveShortcuts}
    /\ ags_importance \in {f \in [Shortcuts -> {1, 5}] :
                              \A s \in Shortcuts : shortcut_r[s] = 0 => f[s] = 1}
    /\ rng \in [{0} -> RngStates]
    /\ rng_state = rng
    /\ IntConf
    /\ InitWorker({0})

NextSeparated ==
    \/ \E w \in Workers : Setup(w)
    \/ \E w \in Workers : StartReallocation(w)
    \/ \E w \in Workers : GradNormTest(w)
    \/ \E w \in Workers : GradNormAgsTest(w)
    \/ \E w \in Workers : DecideTurnOnSeparated(w)
    \/ \E w \in Workers : AppendHistory(w)
    \/ \E w \in Workers : ApplyTurnOn(w)
    \/ \E w \in Workers : SaveReallocationHistory(w)

SpecSeparated == InitSeparated /\ [][NextSeparated]_vars

\* the selection step of worker w has computed its kept sets
Selected(w) ==
    \/ Decided(w)
    \/ pc[w] = "raised" /\ Len(res_val[w]) > 0 /\ Len(ags_res_val[w]) > 0

KeptLora(w) == {k \in KeptKeys(w) : k[2] < LORA_NAME_HASH["residual_1"]}

KeptShortcuts(w) == {k \in KeptKeys(w) : k[2] >= LORA_NAME_HASH["residual_1"]}

LiveLoraKeys == {<<a[1], LORA_NAME_HASH[a[2]]>> : a \in {b \in Adapters : IsLive(b)}}

LiveShortcutKeys ==
    {<<s[1], LORA_NAME_HASH[s[2]]>> : s \in {t \in Shortcuts : IsLiveShortcut(t)}}

\* the score of the module with key k
ScoreOf(k) ==
    IF k[2] < LORA_NAME_HASH["residual_1"]
    THEN importance[<<k[1], HashKeys[k[2] + 1]>>]
    ELSE ags_importance[<<k[1], HashKeys[k[2] + 1]>>]

\* kept is a top set of the family: no module left out scores higher than
\* a module kept
IsTopSet(kept, family) ==
    /\ kept \subseteq family
    /\ \A x \in kept : \A y \in family \ kept : ScoreOf(x) >= ScoreOf(y)

\* round(turn_on_percentile * n): the nearest integer, stated without the
\* division
IsNearestToShare(b, n) ==
    /\ 2 * b * turn_on_percentile[2] <= 2 * turn_on_percentile[1] * n + turn_on_percentile[2]
    /\ 2 * b * turn_on_percentile[2] >= 2 * turn_on_percentile[1] * n - turn_on_percentile[2]

\* C18: with ags_mode separated the two families are thresholded
\* independently: the kept LoRA modules are a top set of the LoRA scores
\* alone and their number is the LoRA budget, the kept shortcut modules are
\* a top set of the shortcut scores alone and their number is the shortcut
\* budget, so that neither kept set depends on the scores of the other
\* family.
C18_SeparatedPolicy ==
    \A w \in Workers :
        Selected(w) =>
            /\ IsTopSet(KeptLora(w), LiveLoraKeys)
            /\ IsFloorOfShare(Cardinality(KeptLora(w)), Cardinality(LiveLoraKeys))
            /\ IsTopSet(KeptShortcuts(w), LiveShortcutKeys)
            /\ IsNearestToShare(Cardinality(KeptShortcuts(w)), Cardinality(LiveShortcutKeys))

\* C18, the part that holds: a round whose two budgets are at least 1
\* passes the assertion and keeps a top set of each family of exactly the
\* family's budget
C18_SeparatedWhenPositive ==
    \A w \in Workers :
        (Selected(w)
         /\ Budget(turn_on_percentile, Cardinality(LiveLoraKeys)) >= 1
         /\ Round(turn_on_percentile, Cardinality(LiveShortcutKeys)) >= 1)
        => /\ pc[w] # "raised"
           /\ IsTopSet(KeptLora(w), LiveLoraKeys)
           /\ Cardinality(KeptLora(w)) = budget[w]
           /\ IsFloorOfShare(budget[w], Cardinality(LiveLoraKeys))
           /\ IsTopSet(KeptShortcuts(w), LiveShortcutKeys)
           /\ Cardinality(KeptShortcuts(w)) = ags_budget[w]
           /\ IsNearestToShare(ags_budget[w], Cardinality(LiveShortcutKeys))

(***************************************************************************)
(* SpecConfig: one worker from the call of the constructor on, over valid  *)
(* and invalid tasks, test names and types of N and limit_test_batches.    *)
(***************************************************************************)
InitConfig ==
    /\ task \in Tasks \cup {"regression"}
    /\ importance_test_name \in {"constant", "grad_norm", "fisher", "magnitude"}
    /\ \/ N_type = "int" /\ N = 2 /\ N_fraction = <<0, 1>>
       \/ N_type = "float" /\ N = 0 /\ N_fraction \in {<<1, 2>>, <<3, 2>>}
       \/ N_type = "bool" /\ N = 1 /\ N_fraction = <<0, 1>>
    /\ \/ limit_type = "int" /\ limit_test_batches = 1 /\ limit_fraction = <<0, 1>>
       \/ limit_type = "float" /\ limit_test_batches = 0 /\ limit_fraction = <<1, 2>>
       \/ limit_type = "None" /\ limit_test_batches = 0 /\ limit_fraction = <<0, 1>>
       \/ limit_type = "bool" /\ limit_test_batches = 1 /\ limit_fraction = <<0, 1>>
    /\ OneDevice
    /\ turn_on_percentile = <<1, 2>>
    /\ r = AllLive
    /\ importance = DistinctScores
    /\ tie_word_embeddings = FALSE
    /\ checkpoint = [c \in Tensors(FALSE) |-> 3]
    /\ metric_reduction_tolerance = <<1, 20>>
    /\ val_metric_at = [k \in 0 .. ALPHA_UB |-> ReferenceMetric("classification")]
    /\ NoAgsConf
    /\ rng \in [{0} -> RngStates]
    /\ rng_state = rng
    /\ pc = [w \in {0} |-> "new"]
    /\ InitObjects({0})

NextConfig ==
    \/ \E w \in Workers : Construct(w)
    \/ \E w \in Workers : Setup(w)
    \/ \E w \in Workers : SkipReallocation(w)
    \/ \E w \in Workers : StartReallocation(w)
    \/ \E w \in Workers : ConstTest(w)
    \/ \E w \in Workers : GradNormTest(w)
    \/ \E w \in Workers : GradNormRaises(w)
    \/ \E w \in Workers : DecideTurnOn(w)
    \/ \E w \in Workers : AppendHistory(w)
    \/ \E w \in Workers : ApplyTurnOn(w)
    \/ \E w \in Workers : SaveReallocationHistory(w)
    \/ \E w \in Workers : TrainingStep(w)

SpecConfig == InitConfig /\ [][NextConfig]_vars

\* the names the assert of __init__ lets through
AcceptedTests ==
    {"constant", "grad_norm", "snip", "synflow", "fisher", "jacob_cov", "alpha_test"}

\* no reallocation round has started and no adapter flag has been written
NoRoundRan ==
    /\ pc[0] \in {"new", "constructed", "raised"}
    /\ disable_adapters[0] = [a \in Adapters |-> FALSE]
    /\ reallocation_history[0] = <<>>

\* construction failed, or has not been attempted yet
NeverConstructed == pc[0] \in {"new", "raised"} /\ NoRoundRan

\* a task or a test name the constructor rejects never yields a callback
C19_FailsAtConstruction ==
    (task \notin Tasks \/ importance_test_name \notin AcceptedTests) => NeverConstructed

\* setup leaves by raising, with no flag and no history touched
SetupRaised ==
    /\ pc'[0] = "raised"
    /\ disable_adapters' = disable_adapters
    /\ reallocation_history' = reallocation_history

\* C19 as stated: a task outside the three tasks or an unsupported test name
\* fails at construction, an N or a limit_test_batches that is neither int
\* nor float raises in setup, and in all these cases no round ever runs and
\* no adapter flag is changed.
C19_ConfigErrorsFatal ==
    /\ [](C19_FailsAtConstruction)
    /\ []((N_type \notin {"int", "float"} \/ limit_type \notin {"int", "float"})
             => NoRoundRan)
    /\ [][(pc[0] = "constructed"
            /\ (N_type \notin {"int", "float"} \/ limit_type \notin {"int", "float"}))
           => SetupRaised]_vars

\* C19, amended: limit_test_batches may also be None, which setup replaces
\* by a default; a task outside the three tasks or an unsupported test name
\* fails at construction, an N that is neither int nor float or a
\* limit_test_batches that is neither None, int nor float raises in setup,
\* and in all these cases no round ever runs and no adapter flag is changed.
C19_ConfigErrorsFatalAmended ==
    /\ [](C19_FailsAtConstruction)
    /\ []((N_type \notin {"int", "float"} \/ limit_type \notin {"None", "int", "float"})
             => NoRoundRan)
    /\ [][(pc[0] = "constructed"
            /\ (N_type \notin {"int", "float"} \/ limit_type \notin {"None", "int", "float"}))
           => SetupRaised]_vars

\* setup has raised on an N of a type that is neither int nor float
C19_Witness ==
    /\ pc[0] = "raised"
    /\ task \in Tasks
    /\ importance_test_name \in ImplementedTests
    /\ N_type = "bool"
    /\ limit_type = "int"

(***************************************************************************)
(* SpecFrame: one worker running trainer.fit, one round per epoch, with    *)
(* the grad_norm or the alpha importance test on a model that has an       *)
(* adapter of rank 0, which the user may have disabled.                    *)
(***************************************************************************)
\* classification metrics falling below the threshold under a cut
FrameProfiles ==
    {[k \in 0 .. ALPHA_UB |->
         IF k = ALPHA_UB THEN ReferenceMetric("classification")
         ELSE IF k < cut THEN <<3, 4>> ELSE <<77, 100>>] : cut \in {0, 3, 7}}

InitFrame ==
    /\ importance_test_name \in {"grad_norm", "alpha_test"}
    /\ N = StepsPerEpoch
    /\ turn_on_percentile = <<1, 2>>
    /\ r \in {[AllLive EXCEPT ![<<0, "k_proj">>] = 0], ThreeLiveRanks}
    /\ importance \in AgsLoraScores
    /\ task = "classification"
    /\ metric_reduction_tolerance = <<1, 20>>
    /\ val_metric_at \in FrameProfiles
    /\ NoSnipConf /\ NoSynflowConf
    /\ rng \in [{0} -> RngStates]
    /\ rng_state = rng
    /\ NoAgsConf
    /\ IntConf
    /\ pc = [w \in {0} |-> "constructed"]
    /\ disable_adapters \in
          [{0} -> {f \in [Adapters -> BOOLEAN] : \A a \in Adapters : IsLive(a) => ~f[a]}]
    /\ InitFields({0})

NextFrame ==
    \/ \E w \in Workers : Setup(w)
    \/ \E w \in Workers : SkipReallocation(w)
    \/ \E w \in Workers : StartReallocation(w)
    \/ \E w \in Workers : GradNormTest(w)
    \/ \E w \in Workers : AlphaStart(w)
    \/ \E w \in Workers : AlphaProbe(w)
    \/ \E w \in Workers : AlphaRecord(w)
    \/ \E w \in Workers : DecideTurnOn(w)
    \/ \E w \in Workers : AppendHistory(w)
    \/ \E w \in Workers : ApplyTurnOn(w)
    \/ \E w \in Workers : SaveReallocationHistory(w)
    \/ \E w \in Workers : TrainingStep(w)

SpecFrame == InitFrame /\ [][NextFrame]_vars

\* the adapters whose active variant is not configured or has rank 0
NonLive == {a \in Adapters : r[a] = 0}

\* module a has a row in the score list or event rows
HasRow(rows, a) ==
    \E i \in 1 .. Len(rows) : rows[i][1] = a[1] /\ rows[i][2] = a[2]

C20_NeverSelected ==
    \A w \in Workers : \A a \in NonLive :
        /\ ~HasRow(res_val[w], a)
        /\ \A i \in 1 .. Len(reallocation_history[w]) :
              ~HasRow(reallocation_history[w][i].turn_on, a)
        /\ <<a[1], LORA_NAME_HASH[a[2]]>> \notin KeptKeys(w)

C20_NeverWritten ==
    \A w \in Workers : \A a \in NonLive :
        /\ disable_adapters'[w][a] = disable_adapters[w][a]
        /\ importance_alpha'[w][a] = importance_alpha[w][a]

\* C20: across any sequence of rounds an adapter whose active variant is
\* not configured or has rank 0 never gets a score, never appears in a
\* history event, is never in a kept set, and no step writes its enabled
\* flag or its importance scale.
C20_NonLiveUntouched == [](C20_NeverSelected) /\ [][C20_NeverWritten]_vars

\* two rounds of the alpha test have completed on a model whose rank-0
\* adapter is disabled
C20_Witness ==
    /\ importance_test_name = "alpha_test"
    /\ Len(reallocation_history[0]) = 2
    /\ pc[0] = "training_step"
    /\ \E a \in NonLive : disable_adapters[0][a]
    /\ \E a \in Adapters : IsLive(a) /\ disable_adapters[0][a]

(***************************************************************************)
(* SpecAlphaAgs: one reallocation round with the alpha importance test on  *)
(* a model whose decoder layers carry shortcut modules, for every ags_mode *)
(* and the metric profiles of AgsProfiles.                                 *)
(***************************************************************************)
\* a metric that falls below the threshold under scale index cut
AgsProfiles ==
    {[k \in 0 .. ALPHA_UB |->
         IF k < cut THEN <<3, 4>> ELSE ReferenceMetric("classification")] :
       cut \in {0, 4, ALPHA_UB}}

InitAlphaAgs ==
    /\ importance_test_name = "alpha_test"
    /\ N = 1
    /\ turn_on_percentile = <<1, 2>>
    /\ r \in FitRanks
    /\ importance = [a \in Adapters |-> 1]
    /\ task = "classification"
    /\ metric_reduction_tolerance = <<1, 20>>
    /\ val_metric_at \in AgsProfiles
    /\ NoSnipConf /\ NoSynflowConf
    /\ ags_mode \in {"off", "combined", "separated"}
    /\ ags_layers = TRUE
    /\ training_dataset = TrainSetSize
    /\ validation_dataset \in TrainSetSize .. ValSetSize
    /\ shortcut_r \in AgsRanks
    /\ ags_importance = [s \in Shortcuts |-> 1]
    /\ rng \in [{0} -> RngStates]
    /\ rng_state = rng
    /\ IntConf
    /\ InitWorker({0})

NextAlphaAgs ==
    \/ \E w \in Workers : Setup(w)
    \/ \E w \in Workers : StartReallocation(w)
    \/ \E w \in Workers : AlphaStart(w)
    \/ \E w \in Workers : AlphaProbe(w)
    \/ \E w \in Workers : AlphaRecord(w)
    \/ \E w \in Workers : AlphaAgsStart(w)
    \/ \E w \in Workers : AlphaAgsProbe(w)
    \/ \E w \in Workers : AlphaAgsRecord(w)
    \/ \E w \in Workers : DecideTurnOn(w)
    \/ \E w \in Workers : DecideTurnOnCombined(w)
    \/ \E w \in Workers : DecideTurnOnSeparated(w)
    \/ \E w \in Workers : AppendHistory(w)
    \/ \E w \in Workers : ApplyTurnOn(w)
    \/ \E w \in Workers : SaveReallocationHistory(w)

SpecAlphaAgs == InitAlphaAgs /\ [][NextAlphaAgs]_vars

\* every live adapter of worker w other than those of except is at scale 1.0
AdaptersAtFullScale(w, except) ==
    \A a \in Adapters \ except : IsLive(a) => importance_alpha[w][a] = ALPHA_UB

\* every live shortcut of worker w other than those of except is at scale 1.0
ShortcutsAtFullScale(w, except) ==
    \A s \in Shortcuts \ except : IsLiveShortcut(s) => importance_beta[w][s] = ALPHA_UB

\* C21: independent single-factor ablation.  While the alpha test searches
\* one module, every other live module is at importance scale 1.0, and once
\* the test has returned every live module is at importance scale 1.0.
C21_SingleFactorAblation ==
    \A w \in Workers :
        IF pc[w] = "alpha_search"
        THEN /\ AdaptersAtFullScale(w, {LiveIn(ReversedOrder)[cursor[w]]})
             /\ ShortcutsAtFullScale(w, {})
        ELSE IF pc[w] = "ags_alpha_search"
        THEN /\ AdaptersAtFullScale(w, {})
             /\ ShortcutsAtFullScale(w, {LiveShortcutsIn(ShortcutReversedOrder)[cursor[w]]})
        ELSE /\ AdaptersAtFullScale(w, {})
             /\ ShortcutsAtFullScale(w, {})

\* the second shortcut is being probed at a reduced scale after the LoRA
\* adapters and the first shortcut were probed and recorded
C21_Witness ==
    /\ pc[0] = "ags_alpha_search"
    /\ cursor[0] = 2
    /\ importance_beta[0][LiveShortcutsIn(ShortcutReversedOrder)[2]] < ALPHA_UB
    /\ test_calls[0][2] > 0
    /\ \E i \in 1 .. Len(res_val[0]) : res_val[0][i][3] < ALPHA_UB

\* the keys of the live modules of both families
LivePooledKeys == LiveLoraKeys \cup LiveShortcutKeys

\* C22: with ags_mode combined the LoRA and the shortcut scores are pooled
\* and thresholded once: the kept set is a top set of the pooled scores and
\* has exactly floor(turn_on_percentile * (number of LoRA scores + number of
\* shortcut scores)) members.
C22_CombinedPolicy ==
    \A w \in Workers :
        (ags_mode = "combined" /\ Decided(w)) =>
            /\ IsTopSet(KeptKeys(w), LivePooledKeys)
            /\ IsFloorOfShare(Cardinality(KeptKeys(w)), Cardinality(LivePooledKeys))

\* C22, the part that holds: a combined round that passes the selection
\* keeps a top set of the pooled scores, of floor(share of the LoRA scores)
\* plus round(share of the shortcut scores) members
C22_PooledWhenPositive ==
    \A w \in Workers :
        (ags_mode = "combined" /\ Decided(w))
        => /\ IsTopSet(KeptKeys(w), LivePooledKeys)
           /\ Cardinality(KeptKeys(w))
                = Budget(turn_on_percentile, Cardinality(LiveLoraKeys))
                  + Round(turn_on_percentile, Cardinality(LiveShortcutKeys))

(***************************************************************************)
(* SpecBisect: one reallocation round with the alpha importance test under *)
(* every outcome of check_exceed_threshold at the scale indices below      *)
(* ALPHA_UB, monotone or not, with and without the shortcut family.        *)
(***************************************************************************)
\* every metric as a function of the scale index: a value inside or outside
\* the tolerance at each index below ALPHA_UB, the reference at ALPHA_UB
AnyProfiles ==
    {[k \in 0 .. ALPHA_UB |->
         IF k = ALPHA_UB THEN ReferenceMetric("classification")
         ELSE IF k \in below THEN <<3, 4>> ELSE <<4, 5>>] :
       below \in SUBSET (0 .. (ALPHA_UB - 1))}

\* the q_proj adapter of every layer
QProjRanks == [a \in Adapters |-> IF a[2] = "q_proj" THEN LoraRank ELSE 0]

\* the residual_1 shortcut of every layer
ResidualRanks == [s \in Shortcuts |-> IF s[2] = "residual_1" THEN ShortcutRank ELSE 0]

InitBisect ==
    /\ importance_test_name = "alpha_test"
    /\ N = 1
    /\ turn_on_percentile = <<1, 2>>
    /\ r = QProjRanks
    /\ importance = [a \in Adapters |-> 1]
    /\ task = "classification"
    /\ metric_reduction_tolerance = <<1, 20>>
    /\ val_metric_at \in AnyProfiles
    /\ NoSnipConf /\ NoSynflowConf
    /\ ags_mode \in {"off", "separated"}
    /\ ags_layers = TRUE
    /\ training_dataset = TrainSetSize
    /\ validation_dataset = ValSetSize
    /\ shortcut_r = ResidualRanks
    /\ ags_importance = [s \in Shortcuts |-> 1]
    /\ rng = [w \in {0} |-> 0]
    /\ rng_state = rng
    /\ IntConf
    /\ InitWorker({0})

NextBisect ==
    \/ \E w \in Workers : Setup(w)
    \/ \E w \in Workers : StartReallocation(w)
    \/ \E w \in Workers : AlphaStart(w)
    \/ \E w \in Workers : AlphaProbe(w)
    \/ \E w \in Workers : AlphaRecord(w)
    \/ \E w \in Workers : AlphaAgsStart(w)
    \/ \E w \in Workers : AlphaAgsProbe(w)
    \/ \E w \in Workers : AlphaAgsRecord(w)
    \/ \E w \in Workers : DecideTurnOn(w)
    \/ \E w \in Workers : DecideTurnOnSeparated(w)

SpecBisect == InitBisect /\ [][NextBisect]_vars

RECURSIVE SumOf(_)
SumOf(s) == IF s = <<>> THEN 0 ELSE Head(s) + SumOf(Tail(s))

\* the number of live modules of the family worker w is searching or has
\* searched last
FamilySize(w) ==
    IF pc[w] \in {"alpha_search", "selecting"}
    THEN Len(LiveIn(ReversedOrder))
    ELSE Len(LiveShortcutsIn(ShortcutReversedOrder))

\* C23: bisection cost and range.  For any metric function, monotone or
\* not, the search for one module makes at most 4 metric evaluations and
\* records a value in 0..10, and the test of one family makes at most
\* 1 + 4 * (number of live modules) evaluations.
C23_BisectionCost ==
    \A w \in Workers :
        /\ \A i \in 1 .. Len(res_val[w]) : res_val[w][i][3] \in 0 .. ALPHA_UB
        /\ \A i \in 1 .. Len(ags_res_val[w]) : ags_res_val[w][i][3] \in 0 .. ALPHA_UB
        /\ pc[w] \in {"alpha_search", "ags_alpha_search"} =>
              /\ 0 <= lb[w] /\ lb[w] <= rb[w] /\ rb[w] <= ALPHA_UB
              /\ ENABLED (AlphaProbe(w) \/ AlphaRecord(w)
                          \/ AlphaAgsProbe(w) \/ AlphaAgsRecord(w))
        /\ test_calls[w] # <<>> =>
              /\ test_calls[w][1] = 1
              /\ \A i \in 2 .. Len(test_calls[w]) : test_calls[w][i] <= 4
              /\ pc[w] \in {"alpha_search", "selecting", "ags_alpha_search", "ags_selecting"}
                    => SumOf(test_calls[w]) <= 1 + 4 * FamilySize(w)

\* a metric that is not monotone in the scale index, for which the search
\* of the first shortcut took 4 evaluations and the one of the LoRA family
\* recorded a value strictly inside 0..10
C23_Witness ==
    /\ ~MonotoneMetric
    /\ pc[0] = "ags_selecting"
    /\ test_calls[0][2] = 4
    /\ Len(ags_res_val[0]) = Len(LiveShortcutsIn(ShortcutReversedOrder))
    /\ res_val[0][1][3] \in 1 .. (ALPHA_UB - 1)

\* the in-memory history of worker w holds an event for the round it is in
EventOfRound(w) ==
    \E i \in 1 .. Len(reallocation_history[w]) :
        /\ reallocation_history[w][i].epoch = current_epoch[w]
        /\ reallocation_history[w][i].step = batch_idx[w]

\* the flags of worker w are those the selection of its round asks for
FlagsApplied(w) ==
    /\ disable_adapters[w] = Applied(disable_adapters[w], turn_on[w])
    /\ AgsOn => disable_projectors[w]
                  = AppliedProjectors(disable_projectors[w], turn_on[w])

\* C24: phase order within a round.  Scoring, Selecting, Applying and
\* Persisting happen in this order and the event of the round is added to
\* the history only after the enabled flags of the round have been applied:
\* a round that is scoring, selecting or applying, or that has aborted, has
\* no event in the in-memory history, and a round that has one has its
\* flags applied.
C24_PhaseOrder ==
    \A w \in Workers :
        /\ pc[w] \in {"importance_test", "selecting", "ags_selecting",
                      "appending", "applying", "raised"} => ~EventOfRound(w)
        /\ (pc[w] \in {"applying", "saving"} /\ EventOfRound(w)) => FlagsApplied(w)

\* the alpha test of the shortcut family of worker w has drawn its stream
AgsStreamDrawn(w) == pc[w] \in {"ags_alpha_search", "ags_selecting"}

\* C25: one shuffle per round.  Within one round of the alpha test the
\* mixed evaluation stream is drawn from the captured RNG state once, so
\* the reference evaluation and the probes of the LoRA adapters and, in the
\* AGS modes, of the shortcut modules iterate the same index sequence: the
\* stream the shortcut probes read is the stream the LoRA probes read, and
\* the generator stands where the one draw of the round left it.
C25_OneShufflePerRound ==
    \A w \in Workers :
        (importance_test_name = "alpha_test" /\ AgsStreamDrawn(w)) =>
            /\ MixedStream(w) =
                  [k \in 1 .. Len(ags_interleave_idx[w]) |->
                      ConcatElement(training_dataset, ags_interleave_idx[w][k])]
            /\ ags_interleave_idx[w] = interleave_idx[w]

(***************************************************************************)
(* SpecStrategies: one reallocation round of each of the five importance   *)
(* tests, with ags_mode off, combined and separated, in runs whose         *)
(* evaluation passes do not fail.                                          *)
(***************************************************************************)
InitStrategies ==
    /\ importance_test_name \in ImplementedTests
    /\ N = 1
    /\ turn_on_percentile = <<1, 2>>
    /\ r \in FitRanks
    /\ importance \in AgsLoraScores
    /\ task = "classification"
    /\ metric_reduction_tolerance = <<1, 20>>
    /\ val_metric_at \in IF importance_test_name = "alpha_test"
                         THEN AgsProfiles
                         ELSE {[k \in 0 .. ALPHA_UB |-> ReferenceMetric("classification")]}
    /\ NoSnipConf /\ NoSynflowConf
    /\ ags_mode \in {"off", "combined", "separated"}
    /\ ags_layers = TRUE
    /\ training_dataset = TrainSetSize
    /\ validation_dataset = ValSetSize
    /\ shortcut_r \in AgsRanks
    /\ ags_importance \in AgsScores
    /\ rng \in [{0} -> RngStates]
    /\ rng_state = rng
    /\ IntConf
    /\ InitWorker({0})

NextStrategies ==
    \/ \E w \in Workers : Setup(w)
    \/ \E w \in Workers : StartReallocation(w)
    \/ \E w \in Workers : ConstTest(w)
    \/ \E w \in Workers : GradNormTest(w)
    \/ \E w \in Workers : SnipPatch(w)
    \/ \E w \in Workers : SnipBackward(w)
    \/ \E w \in Workers : SnipScore(w)
    \/ \E w \in Workers : SynflowLinearize(w)
    \/ \E w \in Workers : SynflowScore(w)
    \/ \E w \in Workers : AlphaStart(w)
    \/ \E w \in Workers : AlphaProbe(w)
    \/ \E w \in Workers : AlphaRecord(w)
    \/ \E w \in Workers : GradNormAgsTest(w)
    \/ \E w \in Workers : AlphaAgsStart(w)
    \/ \E w \in Workers : AlphaAgsProbe(w)
    \/ \E w \in Workers : AlphaAgsRecord(w)
    \/ \E w \in Workers : AgsTestMissing(w)
    \/ \E w \in Workers : DecideTurnOn(w)
    \/ \E w \in Workers : DecideTurnOnCombined(w)
    \/ \E w \in Workers : DecideTurnOnSeparated(w)
    \/ \E w \in Workers : AppendHistory(w)
    \/ \E w \in Workers : ApplyTurnOn(w)
    \/ \E w \in Workers : SaveReallocationHistory(w)

SpecStrategies == InitStrategies /\ [][NextStrategies]_vars

\* the importance test of worker w has returned its scores
Scoring(w) ==
    pc[w] \in {"selecting", "ags_alpha_search", "ags_selecting", "appending",
               "applying", "saving"}

\* the score list of worker w has one row for every live adapter
ListsLive(w) ==
    {<<res_val[w][i][1], res_val[w][i][2]>> : i \in 1 .. Len(res_val[w])}
        = {a \in Adapters : IsLive(a)}

\* within a layer the rows of worker w follow the projection order of
\* lora_modules, and the layers follow each other as layerOrder(l, m) says
ListedBy(w, layerOrder(_, _)) ==
    \A i, j \in 1 .. Len(res_val[w]) :
        i < j => \/ layerOrder(res_val[w][i][1], res_val[w][j][1])
                 \/ /\ res_val[w][i][1] = res_val[w][j][1]
                    /\ LORA_NAME_HASH[res_val[w][i][2]] < LORA_NAME_HASH[res_val[w][j][2]]

Descending(l, m) == l > m

Ascending(l, m) == l < m

ShortcutsScored(w) ==
    {<<ags_res_val[w][i][1], ags_res_val[w][i][2]>> : i \in 1 .. Len(ags_res_val[w])}
        = {s \in Shortcuts : IsLiveShortcut(s)}

\* with the scores of the adapters returned and ags_mode combined or
\* separated, the round goes on into the importance test of the shortcuts
\* or, that test returned, into the selection
C27_SecondTestReturns ==
    \A w \in Workers :
        (pc[w] = "selecting" /\ AgsOn) =>
            pc'[w] \in {"selecting", "ags_alpha_search", "ags_selecting"}

\* the selection of a round with ags_mode combined or separated starts from
\* a score for every live shortcut
C27_EveryShortcutScored ==
    \A w \in Workers : (pc[w] = "ags_selecting" /\ AgsOn) => ShortcutsScored(w)

\* C27: AGS scoring is available for every strategy.  For each of constant,
\* grad_norm, snip, synflow and alpha_test and ags_mode combined or
\* separated, every round invokes a second strategy that returns a score
\* for every live shortcut module, and the round reaches the selection.
C27_AgsScoringAvailable ==
    /\ [](C27_EveryShortcutScored)
    /\ [][C27_SecondTestReturns]_vars

\* C27, the part that holds: with grad_norm and alpha_test the second
\* strategy returns a score for every live shortcut and the round reaches
\* the selection
C27_AgsScoringOfAgsTests ==
    /\ [](C27_EveryShortcutScored)
    /\ [][(importance_test_name \in AgsTests) => C27_SecondTestReturns]_vars

(***************************************************************************)
(* SpecGrads: reallocation rounds with the two strategies that run         *)
(* training_step and loss.backward() over several batches, grad_norm and   *)
(* snip, for one or two test batches and up to MaxEpochs epochs.           *)
(***************************************************************************)
GradTests == {"grad_norm", "snip"}

InitGrads ==
    /\ importance_test_name \in GradTests
    /\ N \in {1, 2}
    /\ turn_on_percentile \in {<<1, 4>>, <<1, 2>>}
    /\ r \in FitRanks
    /\ importance \in ZeroCostScores
    /\ limit_test_batches \in {1, 2}
    /\ NoSynflowConf /\ NoAlphaConf
    /\ rng \in [{0} -> RngStates]
    /\ rng_state = rng
    /\ NoAgsConf
    /\ IntConf
    /\ InitWorker({0})

NextGrads ==
    \/ \E w \in Workers : Setup(w)
    \/ \E w \in Workers : SkipReallocation(w)
    \/ \E w \in Workers : StartReallocation(w)
    \/ \E w \in Workers : GradNormTest(w)
    \/ \E w \in Workers : SnipPatch(w)
    \/ \E w \in Workers : SnipBackward(w)
    \/ \E w \in Workers : SnipScore(w)
    \/ \E w \in Workers : DecideTurnOn(w)
    \/ \E w \in Workers : AppendHistory(w)
    \/ \E w \in Workers : ApplyTurnOn(w)
    \/ \E w \in Workers : SaveReallocationHistory(w)
    \/ \E w \in Workers : TrainingStep(w)

SpecGrads == InitGrads /\ [][NextGrads]_vars

\* every gradient accumulator of the worker's model is empty
GradsEmpty(w) == \A x \in DOMAIN grad[w] : grad[w][x] = 0

\* inside the SNIP loop only the masks hold a gradient, that of the
\* passes run since the clear of line 1449
OnlyLoopGradients(w) ==
    \A x \in DOMAIN grad[w] :
        grad[w][x] = IF x[2] \in MaskNames THEN test_i[w] ELSE 0

\* C28: when grad_norm or snip has returned normally, every gradient
\* accumulator of the model is empty and every parameter has the value it
\* was loaded with; while snip runs its passes the accumulators hold only
\* what those passes put there, and no parameter value has changed
C28_NoGradientLeak ==
    \A w \in Workers :
        /\ (importance_test_name \in GradTests
              /\ pc[w] \in {"selecting", "snip_gradients"})
             => tensor[w] = checkpoint
        /\ (importance_test_name \in GradTests /\ pc[w] = "selecting")
             => GradsEmpty(w)
        /\ pc[w] = "snip_gradients" => OnlyLoopGradients(w)

\* snip has returned from its second call, after two backward passes over
\* masks that the first call had left on the model
C28_Witness ==
    \E w \in Workers :
        /\ importance_test_name = "snip"
        /\ pc[w] = "selecting"
        /\ test_i[w] = 2
        /\ Len(reallocation_history[w]) >= 1
        /\ (LiveAdapters \X MaskNames) \subseteq DOMAIN grad[w]
        /\ LiveAdapters # {}

(***************************************************************************)
(* SpecInterval: setup and the rounds that follow it, for an N given as an *)
(* int or as a fraction of (0, 1], over train dataloaders of up to         *)
(* MaxBatches batches and up to MaxDevices devices.                        *)
(***************************************************************************)
MaxBatches == 5

MaxDevices == 2

MaxDenominator == 4

\* the float values of N that pass the assert 0.0 < self.N <= 1.0
UnitFractions ==
    {f \in (1 .. MaxDenominator) \X (1 .. MaxDenominator) : f[1] <= f[2]}

InitInterval ==
    /\ importance_test_name = "constant"
    /\ \/ N_type = "int" /\ N \in 1 .. MaxBatches /\ N_fraction = <<0, 1>>
       \/ N_type = "float" /\ N = 0 /\ N_fraction \in UnitFractions
    /\ limit_type = "int" /\ limit_test_batches = 1 /\ limit_fraction = <<0, 1>>
    /\ train_dataloader \in 1 .. MaxBatches
    /\ num_devices \in 1 .. MaxDevices
    /\ turn_on_percentile = <<1, 2>>
    /\ r = AllLive
    /\ importance = [a \in Adapters |-> 10]
    /\ NoSynflowConf /\ NoAlphaConf
    /\ NoAgsConf
    /\ rng = [w \in {0} |-> 0]
    /\ rng_state = rng
    /\ InitWorker({0})

NextInterval ==
    \/ \E w \in Workers : Setup(w)
    \/ \E w \in Workers : SkipReallocation(w)
    \/ \E w \in Workers : StartReallocation(w)
    \/ \E w \in Workers : ConstTest(w)
    \/ \E w \in Workers : DecideTurnOn(w)
    \/ \E w \in Workers : AppendHistory(w)
    \/ \E w \in Workers : ApplyTurnOn(w)
    \/ \E w \in Workers : SaveReallocationHistory(w)
    \/ \E w \in Workers : TrainingStep(w)

SpecInterval == InitInterval /\ [][NextInterval]_vars

\* c is the least integer that is at least num / den
IsCeiling(c, num, den) == (c - 1) * den < num /\ num <= c * den

\* setup has returned
SetupDone(w) == pc[w] \notin {"constructed", "raised"}

\* the interval is that of a fractional N: ceil(ceil(L / D) x N)
IntervalOfFraction ==
    \E len \in 1 .. train_dataloader :
        /\ IsCeiling(len, train_dataloader, num_devices)
        /\ IsCeiling(N, len * N_fraction[1], N_fraction[2])

\* setup returns on an int N without changing it
IntervalOfIntKept ==
    \A w \in Workers :
        (pc[w] = "constructed" /\ pc'[w] # "constructed" /\ N_type = "int")
            => (pc'[w] = "batch_start" /\ N' = N)

InitRounds ==
    /\ importance_test_name \in {"constant", "grad_norm", "alpha_test"}
    /\ N = 1
    /\ turn_on_percentile \in {<<1, 4>>, <<1, 2>>}
    /\ r \in FitRanks
    /\ importance \in IF importance_test_name = "grad_norm"
                      THEN ZeroCostScores \cup {DistinctScores}
                      ELSE {[a \in Adapters |-> 10]}
    /\ NoSnipConf /\ NoSynflowConf /\ NoAlphaConf
    /\ val_metric_at \in IF importance_test_name = "alpha_test"
                         THEN AgsProfiles
                         ELSE {[k \in 0 .. ALPHA_UB |-> ReferenceMetric("classification")]}
    /\ NoAgsConf
    /\ rng \in [{0} -> RngStates]
    /\ rng_state = rng
    /\ IntConf
    /\ InitWorker({0})

NextRounds ==
    \/ \E w \in Workers : Setup(w)
    \/ \E w \in Workers : StartReallocation(w)
    \/ \E w \in Workers : ConstTest(w)
    \/ \E w \in Workers : GradNormTest(w)
    \/ \E w \in Workers : AlphaStart(w)
    \/ \E w \in Workers : AlphaProbe(w)
    \/ \E w \in Workers : AlphaRecord(w)
    \/ \E w \in Workers : DecideTurnOn(w)
    \/ \E w \in Workers : AppendHistory(w)
    \/ \E w \in Workers : ApplyTurnOn(w)
    \/ \E w \in Workers : SaveReallocationHistory(w)
    \/ \E w \in Workers : TrainingStep(w)

SpecRounds == InitRounds /\ [][NextRounds]_vars

\* the scores of the round tie at the cutoff: sum(... == alpha_threshold) > 1
TiesAtCutoff(w) ==
    /\ res_val[w] # <<>>
    /\ IsTied(AlphaList(res_val[w]),
              AlphaThreshold(AlphaList(res_val[w]),
                             Budget(turn_on_percentile, Len(res_val[w]))))

\* the modules whose score is the cutoff
TiedModules(w) ==
    LET al == AlphaList(res_val[w])
        thr == AlphaThreshold(al, Budget(turn_on_percentile, Len(al)))
    IN  {i \in 1 .. Len(al) : al[i][3] = thr}

\* the step in which worker w thresholds its scores
Thresholds(w) == pc[w] = "selecting" /\ pc'[w] \in {"appending", "raised"}

\* the step in which worker w builds the mixed evaluation stream
BuildsMixedStream(w) ==
    /\ pc[w] = "importance_test" /\ pc'[w] # "importance_test"
    /\ importance_test_name = "alpha_test"

\* a tie-break draws from the stored state and stores the state after the
\* draw: randperm over n tied modules takes n - 1 outputs
TieBreakAdvances ==
    \A w \in Workers :
        (Thresholds(w) /\ TiesAtCutoff(w))
            => /\ rng_state'[w] =
                     (rng_state[w] + Cardinality(TiedModules(w)) - 1) % RngMod
               /\ rng'[w] = rng_state'[w]

\* only a tie-break or the build of the mixed stream writes self.rng_state
OnlyDrawsStore ==
    \A w \in Workers :
        rng_state'[w] # rng_state[w]
            => \/ Thresholds(w) /\ TiesAtCutoff(w)
               \/ BuildsMixedStream(w)

\* C30: each tie-break restores the stored rng_state, draws the permutation
\* and stores the state after the draw, so the next tie-break continues from
\* there whatever the generator did in between; a round that neither ties
\* nor builds a mixed evaluation stream leaves the stored rng_state as it was
C30_RngAdvancesAcrossRounds ==
    /\ [][TieBreakAdvances]_vars
    /\ [][OnlyDrawsStore]_vars

\* the second of two consecutive rounds has broken its tie over three
\* modules, after a training step that moved the generator
C30_Witness ==
    \E w \in Workers :
        /\ importance_test_name = "constant"
        /\ pc[w] = "appending"
        /\ Len(reallocation_history[w]) = 1
        /\ Len(res_val[w]) = 3
        /\ batch_idx[w] = 1
        /\ rng[w] = rng_state[w]

(***************************************************************************)
(* The plain callback, pl_callbacks/dyrealloc_callback.py: one method,     *)
(* on_train_batch_start (121-289), runs the alpha search, the selection,   *)
(* the flag loop and save_reallocation_history (291-308).  Its mixed       *)
(* dataloader is shuffled by the default generator; the stream only        *)
(* decides what trainer.test measures, which is val_metric_at here.        *)
(***************************************************************************)
QLeq(a, b) == a[1] * b[2] <= b[1] * a[2]

QEq(a, b) == a[1] * b[2] = b[1] * a[2]

\* get_metric_threshold of the plain callback (151-173)
PlainGetMetricThreshold(t, original_metric, tol) ==
    IF t = "causal_language_modeling"
    THEN QAdd(original_metric, QMul(original_metric, tol))
    ELSE QSub(original_metric, QMul(original_metric, tol))

\* a check that also counts a metric equal to the threshold as exceeding
PlainCheckNotStrict(t, val_metric, original_metric, tol) ==
    LET threshold == PlainGetMetricThreshold(t, original_metric, tol)
    IN  IF t = "causal_language_modeling"
        THEN QLeq(threshold, val_metric)
        ELSE QLeq(val_metric, threshold)

\* check_exceed_threshold of the plain callback (175-186)
PlainCheckExceedThreshold(t, val_metric, original_metric, tol) ==
    LET threshold == PlainGetMetricThreshold(t, original_metric, tol)
    IN  IF t = "causal_language_modeling"
        THEN QLess(threshold, val_metric)
        ELSE QLess(val_metric, threshold)

\* get_metric_threshold of actions/alpha_importance_test.py (109-122)
ActionGetMetricThreshold(t, original_metric) ==
    PlainGetMetricThreshold(t, original_metric, <<1, 100>>)

\* check_exceed_threshold of actions/alpha_importance_test.py (124-135)
ActionCheckExceedThreshold(t, val_metric, original_metric) ==
    LET threshold == ActionGetMetricThreshold(t, original_metric)
    IN  IF t = "causal_language_modeling"
        THEN QLeq(threshold, val_metric)
        ELSE QLeq(val_metric, threshold)

\* torch.stack([train_idx, validation_idx], dim=1) of _get_mixed_dataloader
\* (98-100) raises unless randperm(len(training_dataset)) and
\* randperm(len(val_dataloader())) have the same length
PlainStackRaises == training_dataset # ValSetLen

\* lines 128-138 and the entry of the loop over live adapters (201-226)
PlainStart(w) ==
    /\ pc[w] = "batch_start"
    /\ ~NotDue(batch_idx[w], N)
    /\ IF PlainStackRaises
       THEN /\ pc' = Upd(pc, w, "raised")
            /\ UNCHANGED <<original_val_metrics, res_val, cursor, lb, rb>>
       ELSE /\ original_val_metrics' =
                  Upd(original_val_metrics, w, val_metric_at[ALPHA_UB])
            /\ res_val' = Upd(res_val, w, <<>>)
            /\ cursor' = Upd(cursor, w, 1)
            /\ lb' = Upd(lb, w, 0)
            /\ rb' = Upd(rb, w, ALPHA_UB)
            /\ pc' = Upd(pc, w, IF LiveIn(ReversedOrder) = <<>>
                                THEN "plain_selecting" ELSE "plain_search")
    /\ UNCHANGED <<loopVars, confVars, setupVars, snipVars, synVars, agsVars, evalVars,
                   grad, disable_adapters, disable_projectors, rngVars, budget, turn_on,
                   reallocation_history, fileVars, val_metrics, exceeded,
                   importance_alpha>>

\* "while lb < rb" goes on: alpha = (lb + rb) // 2 is not 0 (227-230)
PlainLoopRuns(w) == lb[w] < rb[w] /\ Midpoint(lb[w], rb[w]) # 0

\* one pass of the loop (228-238)
PlainProbe(w) ==
    /\ pc[w] = "plain_search"
    /\ PlainLoopRuns(w)
    /\ LET a == LiveIn(ReversedOrder)[cursor[w]]
           alpha == Midpoint(lb[w], rb[w])
           val == val_metric_at[alpha]
           ex == PlainCheckExceedThreshold(task, val, original_val_metrics[w],
                                           metric_reduction_tolerance)
       IN  /\ importance_alpha' =
                 Upd(importance_alpha, w, [importance_alpha[w] EXCEPT ![a] = alpha])
           /\ val_metrics' = Upd(val_metrics, w, val)
           /\ exceeded' = Upd(exceeded, w, ex)
           /\ lb' = Upd(lb, w, IF ex THEN alpha + 1 ELSE lb[w])
           /\ rb' = Upd(rb, w, IF ex THEN rb[w] ELSE alpha)
    /\ UNCHANGED <<pc, loopVars, confVars, setupVars, snipVars, synVars, agsVars, evalVars,
                   grad, disable_adapters, disable_projectors, rngVars, selVars,
                   reallocation_history, fileVars, original_val_metrics, cursor>>

\* alpha_res = rb (239-244), and the next adapter of the loop or its end
PlainRecord(w) ==
    /\ pc[w] = "plain_search"
    /\ ~PlainLoopRuns(w)
    /\ LET live == LiveIn(ReversedOrder)
           a == live[cursor[w]]
       IN  /\ importance_alpha' =
                 Upd(importance_alpha, w, [importance_alpha[w] EXCEPT ![a] = ALPHA_UB])
           /\ res_val' = Upd(res_val, w, Append(res_val[w], <<a[1], a[2], rb[w]>>))
           /\ IF cursor[w] = Len(live)
              THEN /\ pc' = Upd(pc, w, "plain_selecting")
                   /\ UNCHANGED <<cursor, lb, rb>>
              ELSE /\ cursor' = Upd(cursor, w, cursor[w] + 1)
                   /\ lb' = Upd(lb, w, 0)
                   /\ rb' = Upd(rb, w, ALPHA_UB)
                   /\ UNCHANGED pc
    /\ UNCHANGED <<loopVars, confVars, setupVars, snipVars, synVars, agsVars, evalVars,
                   grad, disable_adapters, disable_projectors, rngVars, budget, turn_on,
                   reallocation_history, fileVars, original_val_metrics, val_metrics,
                   exceeded>>

\* alpha_list[alpha_list[:, 0].argsort(kind="stable")] (257)
PlainSortedByLayer(al) ==
    LET n == Len(al)
        Before(i) == {j \in 1 .. n : al[j][1] < al[i][1]
                                     \/ (al[j][1] = al[i][1] /\ j < i)}
    IN  [k \in 1 .. n |-> al[CHOOSE i \in 1 .. n : Cardinality(Before(i)) = k - 1]]

\* a selection that takes the first budget rows of the sort
PlainTurnOnEarliest(al, b) ==
    LET sorted == PlainSortedByLayer(al)
        idx == SubSeq(ArgSort(sorted), 1, b)
    IN  [i \in 1 .. Len(idx) |-> <<sorted[idx[i]][1], sorted[idx[i]][2]>>]

\* idx = alpha_list[:, 2].argsort(kind="stable")[-budget:];
\* turn_on = alpha_list[idx, :2].tolist() (261-262)
PlainTurnOn(al, b) ==
    LET sorted == PlainSortedByLayer(al)
        idx == SliceFromEnd(ArgSort(sorted), b)
    IN  [i \in 1 .. Len(idx) |-> <<sorted[idx[i]][1], sorted[idx[i]][2]>>]

\* lines 247-264; np.concatenate of an empty list raises ValueError
PlainDecide(w) ==
    /\ pc[w] = "plain_selecting"
    /\ LET al == AlphaList(res_val[w])
           b == Budget(turn_on_percentile, Len(al))
       IN  IF Len(al) = 0
           THEN /\ pc' = Upd(pc, w, "raised")
                /\ UNCHANGED <<budget, turn_on, reallocation_history>>
           ELSE /\ budget' = Upd(budget, w, b)
                /\ turn_on' = Upd(turn_on, w, PlainTurnOn(al, b))
                /\ reallocation_history' =
                      Upd(reallocation_history, w,
                          Append(reallocation_history[w], PlainTurnOn(al, b)))
                /\ pc' = Upd(pc, w, "plain_applying")
    /\ UNCHANGED <<loopVars, confVars, setupVars, stratVars, disable_adapters,
                   disable_projectors, rngVars, res_val, fileVars>>

\* lora.disable_adapters = [layer_id, proj_hash] in turn_on (286)
PlainApplied(flags, kept) ==
    [a \in Adapters |->
        IF IsLive(a) THEN <<a[1], LORA_NAME_HASH[a[2]]>> \in Range(kept)
        ELSE flags[a]]

\* the loop 267-286
PlainApply(w) ==
    /\ pc[w] = "plain_applying"
    /\ disable_adapters' =
          Upd(disable_adapters, w, PlainApplied(disable_adapters[w], turn_on[w]))
    /\ pc' = Upd(pc, w, "plain_saving")
    /\ UNCHANGED <<loopVars, confVars, setupVars, stratVars, disable_projectors, rngVars,
                   selVars, reallocation_history, fileVars>>

\* the modules of every event, in the order the loops 296-297 visit them
RECURSIVE PlainModules(_)
PlainModules(h) == IF h = <<>> THEN <<>> ELSE Head(h) \o PlainModules(Tail(h))

\* the loop body 298-305 over the modules that are left: a module that has
\* an entry gets 0, one that has none gets "+= 1", which raises KeyError
RECURSIVE PlainTurnedOnFreq(_, _)
PlainTurnedOnFreq(mods, freq) ==
    IF mods = <<>> THEN [raised |-> FALSE, freq |-> freq]
    ELSE IF Head(mods) \in DOMAIN freq
         THEN PlainTurnedOnFreq(Tail(mods), [freq EXCEPT ![Head(mods)] = 0])
         ELSE [raised |-> TRUE, freq |-> freq]

\* save_reallocation_history (291-308), and the return of the round (289)
PlainSave(w) ==
    /\ pc[w] = "plain_saving"
    /\ LET counted == PlainTurnedOnFreq(PlainModules(reallocation_history[w]), <<>>)
       IN  IF counted.raised
           THEN /\ pc' = Upd(pc, w, "raised")
                /\ UNCHANGED fileVars
           ELSE /\ history_file' =
                      [written |-> TRUE,
                       total_reallocation_number |-> Len(reallocation_history[w]),
                       turned_on_freq |-> counted.freq]
                /\ UNCHANGED frequency_file
                /\ pc' = Upd(pc, w, "training_step")
    /\ UNCHANGED <<loopVars, confVars, setupVars, stratVars, disable_adapters,
                   disable_projectors, rngVars, selVars, reallocation_history>>

(***************************************************************************)
(* SpecPlain: the plain callback at the first batch of trainer.fit, over   *)
(* the three tasks and metric profiles whose values lie inside the         *)
(* tolerance, exactly at the threshold and outside it.                     *)
(***************************************************************************)
\* metrics a probe of the plain callback may measure, for the reference of
\* ReferenceMetric and a tolerance of 1/20
PlainProbeMetrics(t) ==
    IF t = "causal_language_modeling" THEN {<<41, 2>>, <<21, 1>>, <<43, 2>>}
    ELSE ProbeMetrics(t)

PlainProfiles(t) ==
    {[k \in 0 .. ALPHA_UB |->
         IF k = ALPHA_UB THEN ReferenceMetric(t)
         ELSE IF k < cut THEN lo ELSE hi] :
       cut \in 0 .. ALPHA_UB, lo \in PlainProbeMetrics(t), hi \in PlainProbeMetrics(t)}

InitPlain ==
    /\ importance_test_name = "alpha_test"
    /\ N \in {1, 2}
    /\ turn_on_percentile \in {<<1, 4>>, <<1, 2>>}
    /\ r \in FitRanks
    /\ importance = [a \in Adapters |-> 1]
    /\ task \in Tasks
    /\ metric_reduction_tolerance = <<1, 20>>
    /\ val_metric_at \in PlainProfiles(task)
    /\ NoSnipConf /\ NoSynflowConf
    /\ training_dataset \in {ValSetLen, ValSetLen + 1}
    /\ validation_dataset = ValSetSize
    /\ ags_mode = "off"
    /\ ags_layers = FALSE
    /\ shortcut_r = [s \in Shortcuts |-> 0]
    /\ ags_importance = [s \in Shortcuts |-> 0]
    /\ rng = [w \in {0} |-> 0]
    /\ rng_state = rng
    /\ IntConf
    /\ pc = [w \in {0} |-> "batch_start"]
    /\ InitObjects({0})

NextPlain ==
    \/ \E w \in Workers : PlainStart(w)
    \/ \E w \in Workers : PlainProbe(w)
    \/ \E w \in Workers : PlainRecord(w)
    \/ \E w \in Workers : PlainDecide(w)
    \/ \E w \in Workers : PlainApply(w)
    \/ \E w \in Workers : PlainSave(w)

SpecPlain == InitPlain /\ [][NextPlain]_vars

\* the adapter the search of worker w is at
PlainProbed(w) == LiveIn(ReversedOrder)[cursor[w]]

\* the last probe of the plain callback measured exactly its threshold
PlainProbedAtThreshold(w) ==
    /\ pc[w] = "plain_search"
    /\ importance_alpha[w][PlainProbed(w)] # ALPHA_UB
    /\ QEq(val_metrics[w],
           PlainGetMetricThreshold(task, original_val_metrics[w],
                                   metric_reduction_tolerance))

\* what the llama callback answers for a metric equal to its threshold
LlamaAtThreshold(w) ==
    CheckExceedThreshold(task,
                         GetMetricThreshold(task, original_val_metrics[w],
                                            metric_reduction_tolerance),
                         original_val_metrics[w], metric_reduction_tolerance)

\* what actions/alpha_importance_test.py answers for a metric equal to its
\* threshold
ActionAtThreshold(w) ==
    ActionCheckExceedThreshold(task,
                               ActionGetMetricThreshold(task, original_val_metrics[w]),
                               original_val_metrics[w])

\* C31 as stated: for a metric exactly equal to the threshold, the plain
\* callback and the llama callback give different answers
C31_CallbacksDiffer ==
    \A w \in Workers :
        PlainProbedAtThreshold(w) => exceeded[w] # LlamaAtThreshold(w)

\* C31: for a metric exactly equal to the threshold the plain and the llama
\* callback both answer "not exceeded" (they compare with < and, for
\* perplexity, >), and it is the offline alpha importance test action that
\* answers "exceeded" (it compares with <= and >=); where the two callbacks
\* have the same threshold they give the same answer for the probed metric
C31_ActionDiffers ==
    \A w \in Workers :
        PlainProbedAtThreshold(w)
            => /\ ~exceeded[w]
               /\ ~LlamaAtThreshold(w)
               /\ ActionAtThreshold(w)
               /\ task # "causal_language_modeling"
                    => exceeded[w] =
                          CheckExceedThreshold(task, val_metrics[w],
                                               original_val_metrics[w],
                                               metric_reduction_tolerance)

\* the plain callback has probed an adapter and measured exactly the
\* perplexity threshold 20 + 20 x 0.05 = 21
C31_Witness ==
    \E w \in Workers :
        /\ PlainProbedAtThreshold(w)
        /\ task = "causal_language_modeling"
        /\ val_metrics[w] = <<21, 1>>

\* the threshold check of the plain callback at scale index k
PlainExceedsAt(k) ==
    PlainCheckExceedThreshold(task, val_metric_at[k], val_metric_at[ALPHA_UB],
                              metric_reduction_tolerance)

\* once the check passes at k it passes at every larger k, and at ALPHA_UB
PlainMonotoneMetric ==
    /\ ~PlainExceedsAt(ALPHA_UB)
    /\ \A j, k \in 0 .. ALPHA_UB : (j < k /\ ~PlainExceedsAt(j)) => ~PlainExceedsAt(k)

\* the search of the plain callback has recorded its values
PlainSearched(w) == pc[w] \in {"plain_selecting", "plain_applying", "plain_saving"}

\* C32: for a metric monotone in the scale index, every value the plain
\* callback records is the smallest k in 0..10 for which the threshold check
\* passes at scale k/10; it is 0 when the check passes at scale 0
C32_PlainBisectionMinimality ==
    \A w \in Workers :
        (PlainSearched(w) /\ PlainMonotoneMetric)
            => \A i \in 1 .. Len(res_val[w]) :
                   /\ ~PlainExceedsAt(res_val[w][i][3])
                   /\ \A k \in 0 .. ALPHA_UB :
                          ~PlainExceedsAt(k) => res_val[w][i][3] <= k

\* the flag loop of the plain callback has run in this round
PlainFlagsWritten(w) == pc[w] = "plain_saving"

\* the <<layer, hash>> key under which turn_on lists adapter a
KeyOf(a) == <<a[1], LORA_NAME_HASH[a[2]]>>

\* C33: after the flag loop of a round of the plain callback, every live
\* adapter whose key is in the round's turn_on list is enabled
\* (disable_adapters false) and every other live adapter is disabled
C33_PlainApplying ==
    \A w \in Workers :
        PlainFlagsWritten(w)
            => \A a \in LiveAdapters :
                   disable_adapters[w][a] = (KeyOf(a) \notin Range(turn_on[w]))

\* the plain callback has selected the modules of this round
PlainSelected(w) == pc[w] \in {"plain_applying", "plain_saving"}

\* row x of res_val comes after row y in the priority of the plain callback:
\* a larger recorded value, then a larger layer index, then a later projection
PlainPrefers(x, y) ==
    \/ x[3] > y[3]
    \/ x[3] = y[3] /\ x[1] > y[1]
    \/ x[3] = y[3] /\ x[1] = y[1] /\ LORA_NAME_HASH[x[2]] > LORA_NAME_HASH[y[2]]

\* the rows of res_val whose key is in turn_on
PlainKeptRows(w) ==
    {x \in Range(res_val[w]) : <<x[1], LORA_NAME_HASH[x[2]]>> \in Range(turn_on[w])}

\* C34: when the budget floor(turn_on_percentile x scored count) is at least
\* 1 the plain callback keeps exactly that many adapters, and every kept
\* adapter has a larger recorded value than every adapter not kept or, at
\* the same value, the larger layer index or, in the same layer, the later
\* projection
C34_PlainLaterLayersFirst ==
    \A w \in Workers :
        (PlainSelected(w) /\ (turn_on_percentile[1] * Len(res_val[w])) \div turn_on_percentile[2] >= 1)
            => /\ Len(turn_on[w]) =
                     (turn_on_percentile[1] * Len(res_val[w])) \div turn_on_percentile[2]
               /\ Cardinality(PlainKeptRows(w)) = Len(turn_on[w])
               /\ \A x \in PlainKeptRows(w) :
                      \A y \in Range(res_val[w]) \ PlainKeptRows(w) : PlainPrefers(x, y)

\* four adapters recorded with the same value and a budget of two: the two
\* adapters of the last layer are kept
C34_Witness ==
    \E w \in Workers :
        /\ PlainSelected(w)
        /\ Len(res_val[w]) = 4
        /\ \A i \in 1 .. 4 : res_val[w][i][3] = res_val[w][1][3]
        /\ Len(turn_on[w]) = 2
        /\ \A i \in 1 .. 2 : turn_on[w][i][1] = NumLayers - 1

\* save_reallocation_history of the plain callback has been called and has
\* not raised
PlainSaveCompletes ==
    \A w \in Workers :
        (pc[w] = "plain_saving" /\ pc'[w] # "plain_saving")
            => /\ pc'[w] = "training_step"
               /\ history_file'.written
               /\ history_file'.total_reallocation_number =
                     Len(reallocation_history[w])

\* C35: after any number of rounds, save_reallocation_history of the plain
\* callback completes without error and writes total_reallocation_number
\* equal to the number of rounds and, for each module, the number of rounds
\* in which it was in the turn-on list
C35_PlainHistorySaving ==
    /\ [](\A w \in Workers :
             (pc[w] = "training_step" /\ reallocation_history[w] # <<>>)
                 => /\ history_file.written
                    /\ \A m \in Range(PlainModules(reallocation_history[w])) :
                           /\ m \in DOMAIN history_file.turned_on_freq
                           /\ history_file.turned_on_freq[m] =
                                 Cardinality({i \in 1 .. Len(reallocation_history[w]) :
                                                 m \in Range(reallocation_history[w][i])}))
    /\ [][PlainSaveCompletes]_vars

\* the modules the selector of the round chooses among: the live adapters,
\* and with ags_mode combined the live shortcuts as well
Candidates == IF ags_mode = "combined" THEN LivePooledKeys ELSE LiveLoraKeys

\* c is the cutoff of a selection of b candidates: fewer than b candidates
\* score above c, at least b score c or more
IsCutoff(c, b) ==
    /\ Cardinality({k \in Candidates : ScoreOf(k) > c}) < b
    /\ Cardinality({k \in Candidates : ScoreOf(k) >= c}) >= b

\* a gradient-norm round of worker w has passed the selection with one
\* threshold and a budget of at least 1
SelectedTopK(w) ==
    /\ importance_test_name = "grad_norm"
    /\ ags_mode \in {"off", "combined"}
    /\ Decided(w)
    /\ budget[w] >= 1

\* C36: in every completed round with budget >= 1 every kept module scores
\* at least as high as every module not kept, every module scoring strictly
\* above the cutoff value is kept and no module scoring below it is, so that
\* only the modules scoring exactly the cutoff are left to the random choice
C36_TopK ==
    \A w \in Workers :
        SelectedTopK(w)
            => /\ IsTopSet(KeptKeys(w), Candidates)
               /\ Cardinality(KeptKeys(w)) = budget[w]
               /\ \E k \in Candidates : IsCutoff(ScoreOf(k), budget[w])
               /\ \A c \in {ScoreOf(k) : k \in Candidates} :
                      IsCutoff(c, budget[w])
                          => /\ \A k \in Candidates : ScoreOf(k) > c => k \in KeptKeys(w)
                             /\ \A k \in KeptKeys(w) : ScoreOf(k) >= c

\* a round whose cutoff is tied while modules score above it: those are
\* kept, and one of the tied modules is left out
C36_Witness ==
    \E w \in Workers :
        /\ SelectedTopK(w)
        /\ \E c \in {ScoreOf(k) : k \in Candidates} :
               /\ IsCutoff(c, budget[w])
               /\ \E k \in KeptKeys(w) : ScoreOf(k) > c
               /\ \E k \in Candidates \ KeptKeys(w) : ScoreOf(k) = c
               /\ \E k \in KeptKeys(w) : ScoreOf(k) = c

\* the entries of the last event of the in-memory history of worker w
LastEntries(w) == LastEvent(w).turn_on

\* C37: after every completed round the last history event has exactly one
\* entry per live adapter scored in that round, and the turned_on field of
\* an entry is true if and only if its adapter is enabled in the model
C37_AuditTrail ==
    \A w \in Workers :
        RoundApplied(w)
            => /\ reallocation_history[w] # <<>>
               /\ Len(LastEntries(w)) = Cardinality(LiveAdapters)
               /\ \A a \in LiveAdapters :
                      Cardinality({i \in 1 .. Len(LastEntries(w)) :
                                      <<LastEntries(w)[i][1], LastEntries(w)[i][2]>> = a}) = 1
               /\ \A i \in 1 .. Len(LastEntries(w)) :
                      LastEntries(w)[i][4]
                          <=> ~disable_adapters[w][<<LastEntries(w)[i][1], LastEntries(w)[i][2]>>]

\* a second round has completed on a model with an adapter of rank 0: its
\* event lists the three live adapters, one of them turned on
C37_Witness ==
    \E w \in Workers :
        /\ RoundApplied(w)
        /\ Len(reallocation_history[w]) = 2
        /\ Len(LastEntries(w)) = 3
        /\ Cardinality({i \in 1 .. 3 : LastEntries(w)[i][4]}) = 1
        /\ Cardinality({a \in Adapters : ~disable_adapters[w][a]}) = 2

\* worker w is between rounds: a round has completed and the next one, if
\* any, has not started
BetweenRounds(w) ==
    /\ pc[w] \in {"training_step", "batch_start", "fit_done"}
    /\ reallocation_history[w] # <<>>

\* the live adapters of worker w that are enabled
EnabledLive(w) == {a \in LiveAdapters : ~disable_adapters[w][a]}

FitWorkers == {0}

InitReturns ==
    /\ importance_test_name \in ImplementedTests
    /\ N \in {1, 2}
    /\ turn_on_percentile \in {<<1, 4>>, <<1, 2>>}
    /\ r \in FitRanks
    /\ importance \in {DistinctScores, [a \in Adapters |-> 10]}
    /\ limit_test_batches \in {1, 2}
    /\ NoSynflowConf
    /\ task = "classification"
    /\ metric_reduction_tolerance = <<1, 20>>
    /\ val_metric_at \in IF importance_test_name = "alpha_test"
                         THEN AgsProfiles
                         ELSE {[k \in 0 .. ALPHA_UB |-> ReferenceMetric("classification")]}
    /\ rng = [w \in FitWorkers |-> 0]
    /\ rng_state = rng
    /\ NoAgsConf
    /\ IntConf
    /\ InitWorker(FitWorkers)

\* the statements of the training loop, of the loops of the importance
\* tests and of the flag loop
RunsStatement ==
    \/ \E w \in Workers : Setup(w)
    \/ \E w \in Workers : SkipReallocation(w)
    \/ \E w \in Workers : StartReallocation(w)
    \/ \E w \in Workers : ConstTest(w)
    \/ \E w \in Workers : GradNormTest(w)
    \/ \E w \in Workers : SnipPatch(w)
    \/ \E w \in Workers : SnipBackward(w)
    \/ \E w \in Workers : SnipScore(w)
    \/ \E w \in Workers : SynflowLinearize(w)
    \/ \E w \in Workers : SynflowScore(w)
    \/ \E w \in Workers : AlphaProbe(w)
    \/ \E w \in Workers : AlphaRecord(w)
    \/ \E w \in Workers : AppendHistory(w)
    \/ \E w \in Workers : ApplyTurnOn(w)
    \/ \E w \in Workers : TrainingStep(w)

NextReturns ==
    \/ RunsStatement
    \/ \E w \in Workers : AlphaStart(w)
    \/ \E w \in Workers : DecideTurnOn(w)
    \/ \E w \in Workers : SaveReallocationHistory(w)

\* the positions of three blocks of straight-line code: the entry of the
\* importance test, where _alpha_importance_test builds its mixed
\* dataloader (727-785), the selection (639-657) and
\* save_reallocation_history (1648-1694)
StraightLinePositions == {"importance_test", "selecting", "saving"}

\* with ags_mode off an action of NextReturns can run whenever the worker
\* is at one of these positions, and each such action leaves the position,
\* so weak fairness of AlphaStart, DecideTurnOn and SaveReallocationHistory
\* is that the worker does not stay at any of the positions forever
StraightLineCodeEnds ==
    \A w \in FitWorkers :
        \A p \in StraightLinePositions : []<>(pc[w] # p)

SpecReturns ==
    /\ InitReturns /\ [][NextReturns]_vars
    /\ WF_vars(RunsStatement)
    /\ StraightLineCodeEnds

\* self.reallocation(...) has been entered for the batch of worker w
RoundStarted(w) == pc[w] = "importance_test"

\* on_train_batch_start has returned and the training step of the batch runs
RoundReturned(w) == pc[w] = "training_step"

\* an exception left reallocation() and trainer.fit with it
RoundFailed(w) == pc[w] = "raised"

\* the training step of a batch at which a round is due runs with that
\* round's event already in the history
RoundBeforeStep(w) ==
    pc[w] = "training_step" /\ batch_idx[w] % N = 0 => EventOfRound(w)

\* the training step is entered from the last statement of the round, or
\* from the early return of a batch at which no round is due, and the batch
\* counters move in the training step only
StepFollowsReturn ==
    \A w \in Workers :
        /\ pc'[w] = "training_step" /\ pc[w] # "training_step"
              => \/ pc[w] = "saving"
                 \/ pc[w] = "batch_start" /\ batch_idx[w] % N > 0
        /\ batch_idx'[w] # batch_idx[w] \/ current_epoch'[w] # current_epoch[w]
              => pc[w] = "training_step"

====
